---------------------------- MODULE Spec2Model ----------------------------
(***************************************************************************)
(* Interface reconciliation of metadataserver/builtin_scripts/network.py.  *)
(*                                                                         *)
(* The store is the set of Interface / VLAN / Fabric / Subnet /            *)
(* StaticIPAddress rows.  A pass of update_node_interfaces is a database   *)
(* transaction that walks the desired interfaces in dependency order and   *)
(* then deletes the interfaces that were not matched.                      *)
(*                                                                         *)
(* Conventions: row ids are positive naturals and 0 stands for None; an    *)
(* address "10.0.<net>.<host>/24" is the pair <<net, host>> and the absent *)
(* address is <<>>; a vid of -1 stands for None.                           *)
(***************************************************************************)
EXTENDS Integers, Sequences, FiniteSets, TLC

None == 0
NoVid == 0 - 1
NoAddress == << >>
NoMac == ""

\* IPADDRESS_TYPE of maasserver.enum
STICKY == "STICKY"
DHCP == "DHCP"
DISCOVERED == "DISCOVERED"

Nodes == {"A", "B"}

\* Interface names, listed in ascending (lexicographic) order.
NameOrder == <<"bond0", "br0", "eth0", "eth0.10", "eth1", "eth2", "tun0">>
IfNames == {NameOrder[i] : i \in DOMAIN NameOrder}
NameRank == [n \in IfNames |-> CHOOSE i \in DOMAIN NameOrder : NameOrder[i] = n]

-----------------------------------------------------------------------------
(* Generic helpers: sorted(), flatten(), sorttop().                        *)

\* F applied to the one element of the singleton S: names an intermediate
\* result, e.g. the store after a statement.
With(S, F(_)) == CHOOSE y \in {F(x) : x \in S} : TRUE

\* sorted(list(items)) under the order given by rank (ranks are distinct)
sorted(S, rank) ==
    [i \in 1..Cardinality(S) |->
        CHOOSE x \in S : Cardinality({y \in S : rank[y] < rank[x]}) = i - 1]

\* sorted() of a set of row ids
sorted_ids(S) ==
    [i \in 1..Cardinality(S) |->
        CHOOSE x \in S : Cardinality({y \in S : y < x}) = i - 1]

\* flatten(): the concatenation of a sequence of sequences
RECURSIVE flatten(_)
flatten(ss) == IF ss = << >> THEN << >> ELSE Head(ss) \o flatten(Tail(ss))

\* reversed(list(...))
reversed(s) == [i \in 1..Len(s) |-> s[Len(s) + 1 - i]]

Range(s) == {s[i] : i \in DOMAIN s}

\* sorttop(): batches of things, each batch holding the things all of whose
\* dependencies are in earlier batches.  Every caller of the model hands it
\* dependencies that are things of the same mapping.
RECURSIVE skim(_)
skim(data) ==
    IF DOMAIN data = {} THEN << >>
    ELSE With({{t \in DOMAIN data : data[t] = {}}}, LAMBDA batch :
         IF batch = {} THEN << >>
         ELSE With({[t \in DOMAIN data \ batch |-> data[t] \ batch]},
                   LAMBDA rest : <<batch>> \o skim(rest)))

sorttop(data) ==
    With({[t \in DOMAIN data |-> (data[t] \ {t}) \cap DOMAIN data]},
         LAMBDA d : skim(d))

\* a variant of process_order_of that sorts by name alone
process_order_by_name(desired) == sorted(DOMAIN desired, NameRank)

\* network.py 58-61: the order in which the desired interfaces are processed
process_order_of(desired) ==
    With({sorttop([name \in DOMAIN desired |-> Range(desired[name].parents)])},
         LAMBDA batches :
             flatten([i \in DOMAIN batches |-> sorted(batches[i], NameRank)]))

-----------------------------------------------------------------------------
(* The store.                                                              *)

\* The store of a fresh installation: the default Fabric with its default
\* VLAN, and nothing else.
DefaultFabric == 1
EmptyStore ==
    [interfaces |-> << >>,
     vlans      |-> (1 :> [fabric |-> DefaultFabric, vid |-> 0]),
     fabrics    |-> {DefaultFabric},
     subnets    |-> << >>,
     addresses  |-> << >>,
     boot_interface |-> [n \in Nodes |-> None],
     interface_seq |-> 1,
     fabric_seq |-> 2,
     vlan_seq   |-> 2,
     address_seq |-> 1,
     log        |-> {}]

Remove(f, S) == [x \in DOMAIN f \ S |-> f[x]]

\* Record a write <<kind, table, key>> in the write log of the pass.
Logged(db, kind, table, key) ==
    [db EXCEPT !.log = @ \cup {<<kind, table, key>>}]

\* QuerySet.first() of a set of rows
first(S) ==
    With({S}, LAMBDA T :
        IF T = {} THEN None ELSE CHOOSE x \in T : \A y \in T : x <= y)

\* Fabric.get_default_vlan(): the first VLAN of the fabric
fabric_default_vlan(db, fabric) ==
    first({v \in DOMAIN db.vlans : db.vlans[v].fabric = fabric})

\* VLAN.objects.get_default_vlan()
get_default_vlan(db) == fabric_default_vlan(db, DefaultFabric)

\* Fabric.objects.create(): a new Fabric and its default VLAN
create_fabric(db) ==
    [db  |-> Logged([db EXCEPT
                 !.fabrics = @ \cup {db.fabric_seq},
                 !.vlans = @ @@ (db.vlan_seq :>
                                   [fabric |-> db.fabric_seq, vid |-> 0]),
                 !.fabric_seq = @ + 1,
                 !.vlan_seq = @ + 1], "create", "fabric", db.fabric_seq),
     vlan |-> db.vlan_seq]

\* Interface.delete() of a set of rows: the rows go, and with them their
\* parent/child relations and address links; a boot_interface reference to
\* one of them is set to null.
delete_interfaces(db, ids) ==
    [db EXCEPT
        !.interfaces = [i \in DOMAIN @ \ ids |->
                           [@[i] EXCEPT !.parents = @ \ ids]],
        !.boot_interface = [n \in Nodes |->
                           IF @[n] \in ids THEN None ELSE @[n]],
        !.log = @ \cup {<<"delete", "interface", i>> :
                           i \in ids \cap DOMAIN db.interfaces}]

delete_interface(db, id) == delete_interfaces(db, {id})

\* StaticIPAddress.delete() of a set of rows: the rows and their links go
delete_addresses(db, ids) ==
    [db EXCEPT
        !.addresses = Remove(@, ids),
        !.interfaces = [i \in DOMAIN @ |->
                           [@[i] EXCEPT !.ip_addresses = @ \ ids]],
        !.log = @ \cup {<<"delete", "address", a>> :
                           a \in ids \cap DOMAIN db.addresses}]

-----------------------------------------------------------------------------
(* Address and VLAN helpers of network.py.                                 *)

\* str(IPNetwork(address).cidr) and str(IPNetwork(address).ip)
cidr_of(address) == address[1]
ip_of(address) == address

\* list.remove(x): drop the first occurrence of x
list_remove(s, x) ==
    With({CHOOSE i \in DOMAIN s : s[i] = x /\ \A j \in 1..(i - 1) : s[j] # x},
         LAMBDA at : [i \in 1..(Len(s) - 1) |->
                         IF i < at THEN s[i] ELSE s[i + 1]])

\* Iteration order of a Python set of rows: not defined by the language;
\* ascending or descending id.
set_iteration(S, rev) == IF rev THEN reversed(sorted_ids(S)) ELSE sorted_ids(S)

\* the fields a full Model.save() of an interface may change
AllFields == {"node", "name", "vlan", "enabled"}

\* Model.save() / save(update_fields=...) of an interface object
save_interface(db, id, obj, fields) ==
    IF id \notin DOMAIN db.interfaces THEN db
    ELSE Logged([db EXCEPT !.interfaces[id] = [@ EXCEPT
            !.node = IF "node" \in fields THEN obj.node ELSE @,
            !.name = IF "name" \in fields THEN obj.name ELSE @,
            !.vlan = IF "vlan" \in fields THEN obj.vlan ELSE @,
            !.enabled = IF "enabled" \in fields THEN obj.enabled ELSE @]],
                "save", "interface", id)

\* the object loaded from a row
load_interface(db, id) == db.interfaces[id]

\* network.py 460-473
get_interface_vlan_from_links(db, links) ==
    LET cidrs == {cidr_of(links[i].address) : i \in
                    {j \in DOMAIN links : links[j].mode \in {"static", "dhcp"}
                                          /\ links[j].address # NoAddress}}
    IN  first({db.subnets[c].vlan : c \in cidrs \cap DOMAIN db.subnets})

\* a variant of get_alloc_type_from_ip_addresses that finds nothing
get_alloc_type_none(db, alloc_type, ip_addresses) == None

\* network.py 476-482
get_alloc_type_from_ip_addresses(db, alloc_type, ip_addresses) ==
    LET hits == {i \in DOMAIN ip_addresses :
                   db.addresses[ip_addresses[i]].alloc_type = alloc_type}
    IN  IF hits = {} THEN None ELSE ip_addresses[first(hits)]

\* network.py 485-490
get_ip_address_from_ip_addresses(db, ip, ip_addresses) ==
    LET hits == {i \in DOMAIN ip_addresses :
                   db.addresses[ip_addresses[i]].ip = ip}
    IN  IF hits = {} THEN None ELSE ip_addresses[first(hits)]

\* ip_address.subnet.vlan
address_vlan(db, a) == db.subnets[db.addresses[a].subnet].vlan

\* network.py 493-501
RECURSIVE best_vlan_loop(_, _, _)
best_vlan_loop(db, ip_addresses, second_best) ==
    IF ip_addresses = << >> THEN second_best
    ELSE IF db.addresses[Head(ip_addresses)].alloc_type = STICKY
        THEN address_vlan(db, Head(ip_addresses))
    ELSE IF db.addresses[Head(ip_addresses)].alloc_type = DISCOVERED
        THEN best_vlan_loop(db, Tail(ip_addresses),
                            address_vlan(db, Head(ip_addresses)))
    ELSE best_vlan_loop(db, Tail(ip_addresses), second_best)

\* a variant of guess_best_vlan_from_ip_addresses that returns the VLAN of
\* the first STICKY or DISCOVERED record
RECURSIVE guess_first_vlan_from_ip_addresses(_, _)
guess_first_vlan_from_ip_addresses(db, ip_addresses) ==
    IF ip_addresses = << >> THEN None
    ELSE IF db.addresses[Head(ip_addresses)].alloc_type \in {STICKY, DISCOVERED}
        THEN address_vlan(db, Head(ip_addresses))
    ELSE guess_first_vlan_from_ip_addresses(db, Tail(ip_addresses))

guess_best_vlan_from_ip_addresses(db, ip_addresses) ==
    best_vlan_loop(db, ip_addresses, None)

\* Subnet.objects.get_or_create(cidr=..., defaults={"vlan": vlan})
get_or_create_subnet(db, cidr, vlan) ==
    IF cidr \in DOMAIN db.subnets THEN db
    ELSE Logged([db EXCEPT !.subnets = @ @@
                    (cidr :> [vlan |-> vlan, gateway_ip |-> NoAddress])],
                "create", "subnet", cidr)

\* StaticIPAddress.objects.create(...)
create_address(db, alloc_type, ip, subnet) ==
    Logged([db EXCEPT
        !.addresses = @ @@ (db.address_seq :>
            [alloc_type |-> alloc_type, ip |-> ip, subnet |-> subnet]),
        !.address_seq = @ + 1], "create", "address", db.address_seq)

\* the row with the given ip, if any (ip is unique)
address_with_ip(db, ip) ==
    first({a \in DOMAIN db.addresses : db.addresses[a].ip = ip})

\* ip_address.alloc_type = ...; ip_address.subnet = ...; ip_address.save()
save_address(db, a, alloc_type, subnet) ==
    Logged([db EXCEPT !.addresses[a] =
               [@ EXCEPT !.alloc_type = alloc_type, !.subnet = subnet]],
           "save", "address", a)

\* interface.ip_addresses.add(ip_address)
link_address(db, id, a) ==
    IF a \in db.interfaces[id].ip_addresses THEN db
    ELSE Logged([db EXCEPT !.interfaces[id].ip_addresses = @ \cup {a}],
                "link", "address", a)

\* interface.ip_addresses.remove(ip_address) on each of a set of interfaces
unlink_address(db, ids, a) ==
    IF \A i \in ids : a \notin db.interfaces[i].ip_addresses THEN db
    ELSE Logged([db EXCEPT !.interfaces = [i \in DOMAIN @ |->
              IF i \in ids THEN [@[i] EXCEPT !.ip_addresses = @ \ {a}]
              ELSE @[i]]], "unlink", "address", a)

\* interface.unlink_ip_address(ip_address)
unlink_ip_address(db, id, a) == unlink_address(db, {id}, a)

-----------------------------------------------------------------------------
(* update_links, network.py 504-652.  The loop state st carries the store, *)
(* the interface object, the list current_ip_addresses and the set         *)
(* updated_ip_addresses.                                                   *)

\* a variant of vlan_mismatch that finds every subnet on the right VLAN
no_vlan_mismatch(db, cidr, force_vlan, obj) == FALSE

\* network.py 548 and 588: force_vlan and subnet.vlan_id != interface.vlan_id
vlan_mismatch(db, cidr, force_vlan, obj) ==
    force_vlan /\ db.subnets[cidr].vlan # obj.vlan

\* a variant of update_gateway that takes every declared gateway
overwrite_gateway(db, cidr, link) ==
    IF link.gateway # NoAddress
    THEN Logged([db EXCEPT !.subnets[cidr].gateway_ip = link.gateway],
                "save", "subnet", cidr)
    ELSE db

\* network.py 604-611: the gateway of the subnet, if it has none and the
\* declared one is an address of the subnet
update_gateway(db, cidr, link) ==
    IF /\ db.subnets[cidr].gateway_ip = NoAddress
       /\ link.gateway # NoAddress
       /\ cidr_of(link.gateway) = cidr
    THEN Logged([db EXCEPT !.subnets[cidr].gateway_ip = link.gateway],
                "save", "subnet", cidr)
    ELSE db

\* a variant of attached_elsewhere that finds no interface
attached_nowhere(db, n, ip_address) == {}

\* network.py 636-637: the interfaces of other nodes the address is linked to
attached_elsewhere(db, n, ip_address) ==
    {i \in DOMAIN db.interfaces :
        /\ ip_address \in db.interfaces[i].ip_addresses
        /\ db.interfaces[i].node # n}

\* network.py 521-574: one link of mode dhcp
dhcp_link(st, n, id, link, force_vlan, vlan) ==
    LET cidr == cidr_of(link.address)
        ip_addr == ip_of(link.address)
    IN
    With({get_alloc_type_from_ip_addresses(st.db, DHCP, st.current)},
         LAMBDA found :
    With({IF found = None THEN st.db.address_seq ELSE found},
         LAMBDA dhcp_address :
    With({IF found = None THEN create_address(st.db, DHCP, NoAddress, None)
          ELSE st.db},
         LAMBDA db0 :
    With({IF found = None THEN link_address(db0, id, dhcp_address) ELSE db0},
         LAMBDA db1 :
    With({IF found = None THEN st.current ELSE list_remove(st.current, found)},
         LAMBDA current1 :
        IF link.address = NoAddress
        THEN [st EXCEPT !.db = db1, !.current = current1,
                        !.updated = @ \cup {dhcp_address}]
        ELSE
    With({get_or_create_subnet(db1, cidr, vlan)},
         LAMBDA db2 :
        IF vlan_mismatch(db2, cidr, force_vlan, st.obj)
        THEN [st EXCEPT !.db = db2, !.current = current1]
        ELSE
    With({address_with_ip(db2, ip_addr)},
         LAMBDA existing :
    With({IF existing = None
          THEN create_address(db2, DISCOVERED, ip_addr, cidr)
          ELSE save_address(db2, existing, DISCOVERED, cidr)},
         LAMBDA db3 :
        [st EXCEPT !.db = link_address(db3, id,
                       IF existing = None THEN db2.address_seq ELSE existing),
                   !.current = current1,
                   !.updated = @ \cup {dhcp_address}]))))))))

\* network.py 575-645: one link of mode static
static_link(st, n, id, link, force_vlan, vlan) ==
    LET cidr == cidr_of(link.address)
        ip_addr == ip_of(link.address)
    IN
    With({get_or_create_subnet(st.db, cidr, vlan)},
         LAMBDA db1 :
        IF vlan_mismatch(db1, cidr, force_vlan, st.obj)
        THEN [st EXCEPT !.db = db1]
        ELSE
    \* 604-611
    With({update_gateway(db1, cidr, link)},
         LAMBDA db2 :
    \* 613-632
    With({get_ip_address_from_ip_addresses(db2, ip_addr, st.current)},
         LAMBDA linked :
    With({address_with_ip(db2, ip_addr)},
         LAMBDA existing :
    With({IF linked # None THEN linked
          ELSE IF existing # None THEN existing ELSE db2.address_seq},
         LAMBDA ip_address :
    With({IF linked # None THEN db2
          ELSE IF existing # None
              THEN save_address(db2, existing, STICKY, cidr)
          ELSE create_address(db2, STICKY, ip_addr, cidr)},
         LAMBDA db3 :
    \* 636-641
    With({unlink_address(db3, attached_elsewhere(db3, n, ip_address),
                         ip_address)},
         LAMBDA db4 :
    With({save_address(db4, ip_address, STICKY, cidr)},
         LAMBDA db5 :
    \* 643-645
        [st EXCEPT !.db = link_address(db5, id, ip_address),
                   !.current = IF linked # None THEN list_remove(@, linked)
                               ELSE @,
                   !.updated = @ \cup {ip_address}]))))))))

\* network.py 520-645: the loop over the links
RECURSIVE links_loop(_, _, _, _, _, _)
links_loop(st, n, id, links, force_vlan, vlan) ==
    IF links = << >> THEN st
    ELSE With({IF Head(links).mode = "dhcp"
                   THEN dhcp_link(st, n, id, Head(links), force_vlan, vlan)
               ELSE IF Head(links).mode = "static"
                   THEN static_link(st, n, id, Head(links), force_vlan, vlan)
               ELSE st},
              LAMBDA st1 :
                  links_loop(st1, n, id, Tail(links), force_vlan, vlan))

\* a variant of unlink_all that unlinks nothing
unlink_none(db, id, ip_addresses) == db

\* network.py 647-650: unlink what is left of current_ip_addresses
RECURSIVE unlink_all(_, _, _)
unlink_all(db, id, ip_addresses) ==
    IF ip_addresses = << >> THEN db
    ELSE With({unlink_ip_address(db, id, Head(ip_addresses))},
              LAMBDA db1 : unlink_all(db1, id, Tail(ip_addresses)))

\* network.py 504-652.  Returns the store, the interface object and the set
\* updated_ip_addresses.
update_links(db, n, id, obj, links, force_vlan, use_interface_vlan) ==
    LET own == use_interface_vlan /\ obj.vlan # None
        fresh == ~own /\ links # << >>
    IN
    \* 508-510
    With({delete_addresses(db, {a \in db.interfaces[id].ip_addresses :
                                  db.addresses[a].alloc_type = DISCOVERED})},
         LAMBDA db1 :
    \* 513-519
    With({IF own THEN [db |-> db1, vlan |-> obj.vlan]
          ELSE IF fresh THEN create_fabric(db1)
          ELSE [db |-> db1, vlan |-> None]},
         LAMBDA chosen :
    With({IF fresh THEN [obj EXCEPT !.vlan = chosen.vlan] ELSE obj},
         LAMBDA obj1 :
    With({IF fresh THEN save_interface(chosen.db, id, obj1, AllFields)
          ELSE chosen.db},
         LAMBDA db2 :
    \* 511, 520-645
    With({links_loop([db |-> db2, obj |-> obj1,
                      current |-> sorted_ids(db1.interfaces[id].ip_addresses),
                      updated |-> {}],
                     n, id, links, force_vlan, chosen.vlan)},
         LAMBDA st :
        [db |-> unlink_all(st.db, id, st.current), obj |-> obj1,
         updated |-> st.updated])))))

-----------------------------------------------------------------------------
(* Physical interfaces, network.py 135-253 and 389-457.                    *)

\* a variant of fabric_delete that is never refused
fabric_delete_unchecked(db, fabric) ==
    [db |-> Logged([db EXCEPT
                !.fabrics = @ \ {fabric},
                !.vlans = Remove(@, {v \in DOMAIN db.vlans :
                                        db.vlans[v].fabric = fabric})],
            "delete", "fabric", fabric),
     raised |-> FALSE]

\* Fabric.delete(): refused with an error for the default Fabric and for a
\* Fabric whose VLANs are still referenced by an interface or a subnet;
\* otherwise the Fabric and its VLANs go.
fabric_delete(db, fabric) ==
    LET vs == {v \in DOMAIN db.vlans : db.vlans[v].fabric = fabric}
        referenced ==
            \/ \E i \in DOMAIN db.interfaces : db.interfaces[i].vlan \in vs
            \/ \E c \in DOMAIN db.subnets : db.subnets[c].vlan \in vs
    IN  IF fabric = DefaultFabric \/ referenced
        THEN [db |-> db, raised |-> TRUE]
        ELSE [db |-> Logged([db EXCEPT !.fabrics = @ \ {fabric},
                                       !.vlans = Remove(@, vs)],
                            "delete", "fabric", fabric),
              raised |-> FALSE]

\* network.py 433-457
find_related_interface(db, n, own_interface, related_ifname, related_mac) ==
    LET matches(i, type) ==
            /\ db.interfaces[i].type = type
            /\ related_mac # NoMac => db.interfaces[i].mac_address = related_mac
            /\ own_interface => db.interfaces[i].node = n
    IN  With({first({i \in DOMAIN db.interfaces : matches(i, "physical")})},
             LAMBDA physical :
                 IF physical = None /\ related_mac # NoMac
                 THEN first({i \in DOMAIN db.interfaces :
                               matches(i, "bridge")
                               /\ db.interfaces[i].name = related_ifname})
                 ELSE physical)

\* network.py 230-252: the loop over the relevant hints; related_interface
\* keeps its value from one iteration to the next.
RECURSIVE hints_loop(_, _, _, _)
hints_loop(db, n, hints, related_interface) ==
    IF hints = << >> THEN None
    ELSE With({IF Head(hints).hint \in {"on_remote_network", "routable_to"}
                  /\ Head(hints).related_mac # NoMac
               THEN find_related_interface(db, n, FALSE,
                        Head(hints).related_ifname, Head(hints).related_mac)
               ELSE IF Head(hints).hint \in
                           {"rx_own_beacon_on_other_interface",
                            "same_local_fabric_as"}
               THEN find_related_interface(db, n, TRUE,
                        Head(hints).related_ifname, NoMac)
               ELSE related_interface},
              LAMBDA related :
                  IF related # None /\ db.interfaces[related].vlan # None
                  THEN db.interfaces[related].vlan
                  ELSE hints_loop(db, n, Tail(hints), related))

\* network.py 212-253
guess_vlan_from_hints(db, n, ifname, hints) ==
    With({SelectSeq(hints, LAMBDA hint :
              /\ hint.ifname = ifname
              /\ hint.vid = NoVid
              /\ hint.related_vid = NoVid)},
         LAMBDA relevant : hints_loop(db, n, relevant, None))

\* network.py 389-408.  Returns the store and the VLAN.
guess_vlan_for_interface(db, config) ==
    With({get_interface_vlan_from_links(db, config.links)},
         LAMBDA new_vlan :
    With({get_default_vlan(db)},
         LAMBDA default_vlan :
    With({Cardinality({i \in DOMAIN db.interfaces :
                         db.interfaces[i].vlan = default_vlan})},
         LAMBDA interfaces_on_default_vlan :
        IF new_vlan # None THEN [db |-> db, vlan |-> new_vlan]
        ELSE IF interfaces_on_default_vlan = 0
        THEN [db |-> db, vlan |-> default_vlan]
        ELSE create_fabric(db))))

\* network.py 200-209.  Returns the store, the object, update_fields and
\* whether an error was raised.
update_physical_links(db, n, id, obj, config, new_vlan, update_fields, rev) ==
    With({update_links(db, n, id, obj, config.links, FALSE, TRUE)},
         LAMBDA r :
    With({guess_best_vlan_from_ip_addresses(r.db,
              set_iteration(r.updated, rev))},
         LAMBDA linked_vlan :
        IF linked_vlan = None
        THEN [db |-> r.db, obj |-> r.obj, update_fields |-> update_fields,
              raised |-> FALSE]
        ELSE IF new_vlan # None /\ linked_vlan # new_vlan
        THEN With({fabric_delete(r.db, r.db.vlans[new_vlan].fabric)},
                  LAMBDA del :
                 [db |-> del.db, obj |-> [r.obj EXCEPT !.vlan = linked_vlan],
                  update_fields |-> update_fields \cup {"vlan"},
                  raised |-> del.raised])
        ELSE [db |-> r.db, obj |-> [r.obj EXCEPT !.vlan = linked_vlan],
              update_fields |-> update_fields \cup {"vlan"},
              raised |-> FALSE]))

\* PhysicalInterface.objects.get_or_create(mac_address=..., defaults=...),
\* the case of no interface with the mac
create_physical(db, n, name, mac_address, enabled) ==
    Logged([db EXCEPT
        !.interfaces = @ @@ (db.interface_seq :>
            [node |-> n, name |-> name, mac_address |-> mac_address,
             type |-> "physical", parents |-> {}, vlan |-> None,
             enabled |-> enabled, ip_addresses |-> {}]),
        !.interface_seq = @ + 1], "create", "interface", db.interface_seq)

\* a variant of guess_new_vlan that does not consult the hints
guess_new_vlan_without_hints(db, n, name, config, create_fabrics, hints, obj) ==
    IF ~(create_fabrics /\ obj.vlan = None /\ config.enabled)
    THEN [db |-> db, vlan |-> None]
    ELSE guess_vlan_for_interface(db, config)

\* a variant of guess_new_vlan that guesses also for an interface that has
\* a VLAN
guess_new_vlan_again(db, n, name, config, create_fabrics, hints, obj) ==
    IF ~(create_fabrics /\ config.enabled)
    THEN [db |-> db, vlan |-> None]
    ELSE guess_vlan_for_interface(db, config)

\* network.py 164-176: the VLAN of an interface that has none.  Returns the
\* store and the VLAN.
guess_new_vlan(db, n, name, config, create_fabrics, hints, obj) ==
    IF ~(create_fabrics /\ obj.vlan = None /\ config.enabled)
    THEN [db |-> db, vlan |-> None]
    ELSE With({guess_vlan_from_hints(db, n, name, hints)},
              LAMBDA hinted :
                  IF hinted # None THEN [db |-> db, vlan |-> hinted]
                  ELSE guess_vlan_for_interface(db, config))

\* a variant of same_name_other_mac that finds no interface
no_same_name(db, n, name, mac_address) == {}

\* a variant of same_name_other_mac without the exclude() of the mac
same_name_any_mac(db, n, name, mac_address) ==
    {i \in DOMAIN db.interfaces :
        /\ db.interfaces[i].type = "physical"
        /\ db.interfaces[i].node = n
        /\ db.interfaces[i].name = name}

\* network.py 152-154: PhysicalInterface.objects.filter(node=node,
\* name=name).exclude(mac_address=mac_address)
same_name_other_mac(db, n, name, mac_address) ==
    {i \in DOMAIN db.interfaces :
        /\ db.interfaces[i].type = "physical"
        /\ db.interfaces[i].node = n
        /\ db.interfaces[i].name = name
        /\ db.interfaces[i].mac_address # mac_address}

\* a variant of get_physical that never finds the interface of the mac
get_physical_none(db, mac_address) == None

\* network.py 155-163: the lookup of get_or_create(mac_address=...)
get_physical(db, mac_address) ==
    first({i \in DOMAIN db.interfaces :
              /\ db.interfaces[i].type = "physical"
              /\ db.interfaces[i].mac_address = mac_address})

\* a variant of delete_moved_links that leaves the links in place
keep_moved_links(db, id) == db

\* network.py 178-182: interface.ip_addresses.all().delete() of an interface
\* that moves to another node
delete_moved_links(db, id) ==
    delete_addresses(db, db.interfaces[id].ip_addresses)

\* network.py 135-197.  Returns the store, the id of the interface and
\* whether an error was raised.
update_physical_interface(db, n, name, config, create_fabrics, hints, rev) ==
    LET mac_address == config.mac_address
        is_enabled == config.enabled
    IN
    \* 152-154
    With({delete_interfaces(db,
              same_name_other_mac(db, n, name, mac_address))},
         LAMBDA db1 :
    \* 155-163
    With({get_physical(db1, mac_address)},
         LAMBDA found :
    With({IF found = None
          THEN create_physical(db1, n, name, mac_address, is_enabled)
          ELSE db1},
         LAMBDA db2 :
    With({IF found = None THEN db1.interface_seq ELSE found},
         LAMBDA id :
    With({load_interface(db2, id)},
         LAMBDA obj :
    \* 169-176
    With({guess_new_vlan(db2, n, name, config, create_fabrics, hints, obj)},
         LAMBDA guess :
    \* 177-186
    With({IF found # None /\ obj.node # n
          THEN delete_moved_links(guess.db, id)
          ELSE guess.db},
         LAMBDA db4 :
    With({[obj EXCEPT
              !.vlan = IF guess.vlan # None THEN guess.vlan ELSE @,
              !.node = IF found # None THEN n ELSE @,
              !.name = IF found # None THEN name ELSE @,
              !.enabled = is_enabled]},
         LAMBDA obj5 :
    With({(IF guess.vlan # None THEN {"vlan"} ELSE {})
          \cup (IF found # None /\ obj.node # n THEN {"node"} ELSE {})
          \cup (IF found # None THEN {"name"} ELSE {})
          \cup (IF obj.enabled # is_enabled THEN {"enabled"} ELSE {})},
         LAMBDA fields5 :
    \* 193-194
    With({IF create_fabrics
          THEN update_physical_links(db4, n, id, obj5, config, guess.vlan,
                                     fields5, rev)
          ELSE [db |-> db4, obj |-> obj5, update_fields |-> fields5,
                raised |-> FALSE]},
         LAMBDA linked :
    \* 195-196
        [db |-> IF linked.update_fields # {} /\ ~linked.raised
                THEN save_interface(linked.db, id, linked.obj,
                                    linked.update_fields)
                ELSE linked.db,
         id |-> id,
         raised |-> linked.raised]))))))))))

-----------------------------------------------------------------------------
(* VLAN, bond and bridge interfaces, network.py 256-430.                   *)

\* the row of a new child interface
create_child(db, n, name, mac_address, type, parents, vlan) ==
    Logged([db EXCEPT
        !.interfaces = @ @@ (db.interface_seq :>
            [node |-> n, name |-> name, mac_address |-> mac_address,
             type |-> type, parents |-> parents, vlan |-> vlan,
             enabled |-> TRUE, ip_addresses |-> {}]),
        !.interface_seq = @ + 1], "create", "interface", db.interface_seq)

\* a variant of get_or_create_vlan that creates without looking
always_create_vlan(db, fabric, vid) ==
    [db |-> Logged([db EXCEPT
                    !.vlans = @ @@ (db.vlan_seq :>
                                 [fabric |-> fabric, vid |-> vid]),
                    !.vlan_seq = @ + 1],
                        "create", "vlan", db.vlan_seq),
     vlan |-> db.vlan_seq]

\* VLAN.objects.get_or_create(fabric=..., vid=...).  Returns the store and
\* the VLAN.
get_or_create_vlan(db, fabric, vid) ==
    With({first({v \in DOMAIN db.vlans :
                   db.vlans[v].fabric = fabric /\ db.vlans[v].vid = vid})},
         LAMBDA found :
        IF found # None THEN [db |-> db, vlan |-> found]
        ELSE [db |-> Logged([db EXCEPT
                        !.vlans = @ @@ (db.vlan_seq :>
                                     [fabric |-> fabric, vid |-> vid]),
                        !.vlan_seq = @ + 1],
                            "create", "vlan", db.vlan_seq),
              vlan |-> db.vlan_seq])

\* network.py 288-301: the VLAN interface row.  Returns the store and the
\* id of the interface.
get_vlan_interface(db, n, name, config, parent_nic, vlan) ==
    LET candidates == {i \in DOMAIN db.interfaces :
                         /\ db.interfaces[i].type = "vlan"
                         /\ db.interfaces[i].node = n
                         /\ db.interfaces[i].name = name
                         /\ parent_nic \in db.interfaces[i].parents}
    IN
    \* 288-290
    With({first({i \in candidates :
                   /\ db.interfaces[i].vlan # None
                   /\ db.vlans[db.interfaces[i].vlan].vid = config.vid})},
         LAMBDA found :
    \* 292-298
    With({first({i \in candidates : db.interfaces[i].vlan = vlan})},
         LAMBDA same :
        IF found # None
        THEN [db |-> IF db.interfaces[found].vlan # vlan
                     THEN save_interface(db, found,
                              [db.interfaces[found] EXCEPT !.vlan = vlan],
                              AllFields)
                     ELSE db,
              id |-> found]
        ELSE IF same # None THEN [db |-> db, id |-> same]
        ELSE [db |-> create_child(db, n, name, config.mac_address, "vlan",
                                  {parent_nic}, vlan),
              id |-> db.interface_seq]))

\* network.py 256-304
update_vlan_interface(db, n, name, config) ==
    \* 266-267
    With({{i \in DOMAIN db.interfaces :
             /\ config.parents # << >>
             /\ db.interfaces[i].node = n
             /\ db.interfaces[i].name = config.parents[1]}},
         LAMBDA parents :
        IF Cardinality(parents) # 1
        THEN [db |-> db, id |-> None, raised |-> TRUE]
        ELSE
    With({first(parents)},
         LAMBDA parent_nic :
        IF db.interfaces[parent_nic].vlan = None
        THEN [db |-> db, id |-> None, raised |-> TRUE]
        ELSE
    \* 268-286
    With({get_interface_vlan_from_links(db, config.links)},
         LAMBDA links_vlan :
    With({IF links_vlan # None THEN [db |-> db, vlan |-> links_vlan]
          ELSE get_or_create_vlan(db,
                   db.vlans[db.interfaces[parent_nic].vlan].fabric,
                   config.vid)},
         LAMBDA target :
    \* 288-301
    With({get_vlan_interface(target.db, n, name, config, parent_nic,
                             target.vlan)},
         LAMBDA got :
    \* 303
    With({update_links(got.db, n, got.id, load_interface(got.db, got.id),
                       config.links, TRUE, TRUE)},
         LAMBDA r :
        [db |-> r.db, id |-> got.id, raised |-> FALSE]))))))

\* network.py 411-430.  Returns the store, the object and found_vlan.
configure_vlan_from_links(db, id, obj, parent_nics, links) ==
    With({get_interface_vlan_from_links(db, links)},
         LAMBDA vlan :
        IF vlan = None /\ parent_nics # << >>
        THEN With({[obj EXCEPT !.vlan = db.interfaces[parent_nics[1]].vlan]},
                  LAMBDA obj1 :
                      [db |-> save_interface(db, id, obj1, AllFields),
                       obj |-> obj1, found_vlan |-> TRUE])
        ELSE IF vlan # None
        THEN With({[obj EXCEPT !.vlan = vlan]},
                  LAMBDA obj1 :
                      [db |-> save_interface(db, id, obj1, AllFields),
                       obj |-> obj1, found_vlan |-> TRUE])
        ELSE [db |-> db, obj |-> obj, found_vlan |-> FALSE])

\* network.py 383-386: the loop over parent_nics; parent_objs are the parent
\* objects loaded before the child was updated.
RECURSIVE parents_loop(_, _, _, _)
parents_loop(db, parent_nics, parent_objs, linked_vlan) ==
    IF parent_nics = << >> THEN db
    ELSE With({IF parent_objs[Head(parent_nics)].vlan # linked_vlan
               THEN save_interface(db, Head(parent_nics),
                        [parent_objs[Head(parent_nics)] EXCEPT
                            !.vlan = linked_vlan],
                        AllFields)
               ELSE db},
              LAMBDA db1 : parents_loop(db1, Tail(parent_nics), parent_objs,
                                        linked_vlan))

\* a variant of update_parent_vlans that leaves the child and its parents
\* as they are
leave_parent_vlans(db, id, obj, parent_nics, parent_objs, update_ip_addresses) ==
    db

\* network.py 370-386
update_parent_vlans(db, id, obj, parent_nics, parent_objs, update_ip_addresses) ==
    With({guess_best_vlan_from_ip_addresses(db, update_ip_addresses)},
         LAMBDA linked_vlan :
        IF linked_vlan = None THEN db
        ELSE With({save_interface(db, id, [obj EXCEPT !.vlan = linked_vlan],
                                  AllFields)},
                  LAMBDA db1 : parents_loop(db1, parent_nics, parent_objs,
                                            linked_vlan)))

\* child_type.objects.get_or_create_on_node(node, name, mac_address,
\* parent_nics): the interface of that type and name on the node, with the
\* given mac and parents.  Returns the store and the id of the interface.
get_or_create_on_node(db, n, name, mac_address, type, parents) ==
    With({first({i \in DOMAIN db.interfaces :
                   /\ db.interfaces[i].type = type
                   /\ db.interfaces[i].node = n
                   /\ db.interfaces[i].name = name})},
         LAMBDA found :
        IF found = None
        THEN [db |-> create_child(db, n, name, mac_address, type, parents,
                                  None),
              id |-> db.interface_seq]
        ELSE IF /\ db.interfaces[found].mac_address = mac_address
                /\ db.interfaces[found].parents = parents
        THEN [db |-> db, id |-> found]
        ELSE [db |-> Logged([db EXCEPT !.interfaces[found] =
                        [@ EXCEPT !.mac_address = mac_address,
                                  !.parents = parents]],
                            "save", "interface", found),
              id |-> found])

\* a variant of update_child_interface that models a child interface
\* without parents whatever its type
update_orphan_interface(db, n, name, config, child_type, rev) ==
    With({{i \in DOMAIN db.interfaces :
             /\ db.interfaces[i].node = n
             /\ db.interfaces[i].name \in Range(config.parents)}},
         LAMBDA parent_set :
    With({get_or_create_on_node(db, n, name, config.mac_address, child_type,
                                parent_set)},
         LAMBDA got :
    With({configure_vlan_from_links(got.db, got.id,
              load_interface(got.db, got.id), sorted_ids(parent_set),
              config.links)},
         LAMBDA conf :
    With({update_links(conf.db, n, got.id, conf.obj, config.links, FALSE,
                       conf.found_vlan)},
         LAMBDA r :
        [db |-> update_parent_vlans(r.db, got.id, r.obj,
                    sorted_ids(parent_set),
                    [p \in parent_set |-> load_interface(db, p)],
                    set_iteration(r.updated, rev)),
         id |-> got.id,
         raised |-> FALSE]))))

\* network.py 307-347
update_child_interface(db, n, name, config, child_type, rev) ==
    \* 316-319
    With({{i \in DOMAIN db.interfaces :
             /\ db.interfaces[i].node = n
             /\ db.interfaces[i].name \in Range(config.parents)}},
         LAMBDA parent_set :
        \* 325-326
        IF parent_set = {} /\ child_type # "bridge"
        THEN [db |-> db, id |-> None, raised |-> FALSE]
        ELSE
    With({sorted_ids(parent_set)},
         LAMBDA parent_nics :
    With({[p \in parent_set |-> load_interface(db, p)]},
         LAMBDA parent_objs :
    \* 328-335
    With({get_or_create_on_node(db, n, name, config.mac_address, child_type,
                                parent_set)},
         LAMBDA got :
    \* 337-338
    With({configure_vlan_from_links(got.db, got.id,
              load_interface(got.db, got.id), parent_nics, config.links)},
         LAMBDA conf :
    \* 343-345
    With({update_links(conf.db, n, got.id, conf.obj, config.links, FALSE,
                       conf.found_vlan)},
         LAMBDA r :
    \* 346
        [db |-> update_parent_vlans(r.db, got.id, r.obj, parent_nics,
                    parent_objs, set_iteration(r.updated, rev)),
         id |-> got.id,
         raised |-> FALSE]))))))

\* network.py 350-357
update_bond_interface(db, n, name, config, rev) ==
    update_child_interface(db, n, name, config, "bond", rev)

\* network.py 360-367
update_bridge_interface(db, n, name, config, rev) ==
    update_child_interface(db, n, name, config, "bridge", rev)

\* a variant of ValueError that returns None instead of raising
NoValueError(db, name, config) == [db |-> db, id |-> None, raised |-> FALSE]

\* network.py 128-131: raise ValueError("Unkwown interface type ...")
ValueError(db, name, config) == [db |-> db, id |-> None, raised |-> TRUE]

\* a variant of update_interface that models the child interfaces whatever
\* create_fabrics is
update_interface_with_children(db, n, name, config, create_fabrics, hints, rev) ==
    IF config.type = "physical"
        THEN update_physical_interface(db, n, name, config, create_fabrics,
                                       hints, rev)
    ELSE IF config.type = "vlan"
        THEN update_vlan_interface(db, n, name, config)
    ELSE IF config.type = "bond"
        THEN update_bond_interface(db, n, name, config, rev)
    ELSE IF config.type = "bridge"
        THEN update_bridge_interface(db, n, name, config, rev)
    ELSE ValueError(db, name, config)

\* network.py 109-132
update_interface(db, n, name, config, create_fabrics, hints, rev) ==
    IF config.type = "physical"
        THEN update_physical_interface(db, n, name, config, create_fabrics,
                                       hints, rev)
    ELSE IF ~create_fabrics
        THEN [db |-> db, id |-> None, raised |-> FALSE]
    ELSE IF config.type = "vlan"
        THEN update_vlan_interface(db, n, name, config)
    ELSE IF config.type = "bond"
        THEN update_bond_interface(db, n, name, config, rev)
    ELSE IF config.type = "bridge"
        THEN update_bridge_interface(db, n, name, config, rev)
    ELSE ValueError(db, name, config)

-----------------------------------------------------------------------------
(* Desired states handed to update_node_interfaces.                        *)

Physical(mac_address, enabled, links) ==
    [type |-> "physical", parents |-> << >>, mac_address |-> mac_address,
     enabled |-> enabled, links |-> links, vid |-> NoVid]

Vlan(parent, vid, mac_address, links) ==
    [type |-> "vlan", parents |-> <<parent>>, mac_address |-> mac_address,
     enabled |-> TRUE, links |-> links, vid |-> vid]

Bond(parents, mac_address, links) ==
    [type |-> "bond", parents |-> parents, mac_address |-> mac_address,
     enabled |-> TRUE, links |-> links, vid |-> NoVid]

Bridge(parents, mac_address, links) ==
    [type |-> "bridge", parents |-> parents, mac_address |-> mac_address,
     enabled |-> TRUE, links |-> links, vid |-> NoVid]

Tunnel(parents, mac_address) ==
    [type |-> "tunnel", parents |-> parents, mac_address |-> mac_address,
     enabled |-> TRUE, links |-> << >>, vid |-> NoVid]

Static(address, gateway) ==
    [mode |-> "static", address |-> address, gateway |-> gateway]

Dhcp(address) ==
    [mode |-> "dhcp", address |-> address, gateway |-> NoAddress]

Hint(ifname, hint, related_ifname, related_mac) ==
    [ifname |-> ifname, vid |-> NoVid, hint |-> hint,
     related_ifname |-> related_ifname, related_vid |-> NoVid,
     related_mac |-> related_mac]

NoHints == << >>

\* The requests of the model: a desired-state mapping and a hint batch.
Requests ==
    { [interfaces |-> << >>, hints |-> NoHints],
      [interfaces |-> "eth0" :> Physical("m1", TRUE, << >>),
       hints |-> NoHints],
      [interfaces |-> "eth0" :> Physical("m1", TRUE,
                                   <<Static(<<5, 1>>, <<5, 254>>)>>)
                   @@ "eth1" :> Physical("m2", TRUE,
                                   <<Static(<<6, 1>>, NoAddress)>>),
       hints |-> NoHints],
      [interfaces |-> "eth0" :> Physical("m1", TRUE, << >>)
                   @@ "eth1" :> Physical("m2", FALSE, << >>)
                   @@ "bond0" :> Bond(<<"eth0", "eth1">>, "m1",
                                      <<Static(<<6, 1>>, NoAddress)>>),
       hints |-> NoHints],
      [interfaces |-> "eth0" :> Physical("m1", TRUE,
                                   <<Static(<<5, 1>>, NoAddress)>>)
                   @@ "eth0.10" :> Vlan("eth0", 10, "m1",
                                      <<Static(<<6, 2>>, NoAddress)>>),
       hints |-> NoHints],
      [interfaces |-> "eth0" :> Physical("m1", TRUE, << >>)
                   @@ "eth1" :> Physical("m2", TRUE, << >>)
                   @@ "tun0" :> Tunnel(<< >>, "m4")
                   @@ "br0" :> Bridge(<<"eth0">>, "m1", << >>),
       hints |-> NoHints],
      [interfaces |-> "eth0" :> Physical("m1", TRUE, << >>)
                   @@ "bond0" :> Bond(<<"eth0">>, "m1", << >>),
       hints |-> NoHints],
      [interfaces |-> "eth1" :> Physical("m1", TRUE, << >>),
       hints |-> NoHints],
      [interfaces |-> "eth0" :> Physical("m2", TRUE, << >>)
                   @@ "eth1" :> Physical("m1", TRUE, << >>),
       hints |-> NoHints],
      [interfaces |-> "eth0" :> Physical("m3", TRUE,
                                   <<Dhcp(<<5, 7>>)>>),
       hints |-> NoHints],
      [interfaces |-> "eth0" :> Physical("m3", TRUE,
                                   <<Static(<<5, 3>>, NoAddress),
                                     Static(<<6, 3>>, NoAddress)>>),
       hints |-> NoHints],
      [interfaces |-> "br0" :> Bridge(<< >>, "m5", <<Dhcp(NoAddress)>>),
       hints |-> NoHints],
      [interfaces |-> "eth0" :> Physical("m3", TRUE,
                                   <<Static(<<5, 2>>, NoAddress)>>),
       hints |-> <<Hint("eth0", "on_remote_network", "eth1", "m2")>>],
      [interfaces |-> "eth0" :> Physical("m3", TRUE, << >>)
                   @@ "eth1" :> Physical("m2", TRUE, << >>),
       hints |-> <<Hint("eth0", "same_local_fabric_as", "eth1", NoMac)>>],
      [interfaces |-> "eth0" :> Physical("m1", TRUE, << >>)
                   @@ "eth1" :> Physical("m2", TRUE, << >>)
                   @@ "br0" :> Bridge(<<"eth0", "eth1">>, "m1",
                                      <<Dhcp(<<6, 7>>)>>),
       hints |-> NoHints],
      [interfaces |-> "eth0" :> Physical("m1", FALSE, << >>)
                   @@ "eth0.10" :> Vlan("eth0", 10, "m1", << >>),
       hints |-> NoHints],
      [interfaces |-> "eth0" :> Physical("m1", TRUE, << >>)
                   @@ "eth1" :> Physical("m1", TRUE, << >>)
                   @@ "bond0" :> Bond(<<"eth0">>, "m1",
                                      <<Static(<<6, 1>>, NoAddress)>>),
       hints |-> NoHints] }

\* Bound on the number of passes of one behaviour.
MaxPasses == 2

-----------------------------------------------------------------------------
(* A pass of update_node_interfaces, network.py 24-106.                    *)

VARIABLES
    db,                 \* the store, as the running transaction sees it
    pc,                 \* "idle", "update", "done" or "failed"
    node,               \* the node of the pass
    interfaces,         \* the desired-state mapping of the pass
    topology_hints,     \* the hint batch of the pass
    create_fabrics,     \* the create_fabrics flag of the pass
    process_order,      \* the names still to be processed
    current_interfaces, \* ids stored for the node and not matched so far
    before,             \* the store when the pass began
    processed,          \* the names update_interface has returned for
    deleted,            \* the ids deleted by the deletion pass, in order
    pre,                \* the store before the latest step of the pass
    last,               \* the id returned by the latest update_interface
    repeat,             \* the pass repeats the previous one
    passes,             \* the number of passes begun
    txn,                \* per node, the pass it runs beside the other node's
    candidates,         \* the records guess_best_vlan_from_ip_addresses got
    guessed,            \* the VLAN it returned for them
    deletions           \* per delete() of the deletion pass, the id and
                        \* node.boot_interface_id at that moment

\* the state of a pass
passvars == <<db, pc, node, interfaces, topology_hints, create_fabrics,
              process_order, current_interfaces, before, processed, deleted,
              pre, last, repeat, passes, txn, candidates, guessed, deletions>>

\* BeaconingSocketProtocol of provisioningserver.utils.services, as
\* utils/tests/test_services.py 1010-1534 drives it: the multicast queue
VARIABLES
    now,                    \* time.monotonic() and the reactor clock, seconds
    mcast_requested,        \* a multicast burst is queued
    mcast_solicitation,     \* the queued burst is a solicitation
    last_solicited_mcast,   \* when the latest burst was dequeued
    mcast_timer,            \* when the queued dequeue is due, or NoTimer
    queued,                 \* the requests the queued burst stands for
    last_burst,             \* the latest call of send_multicast_beacons
    windows,                \* the number of bursts queued so far
    mcast_calls,            \* the number of send_multicast_beacons calls
    listen_port,            \* protocol.listen_port: none, open or closed
    protocol_stopped        \* stopProtocol() was called

schedvars == <<now, mcast_requested, mcast_solicitation,
               last_solicited_mcast, mcast_timer, queued, last_burst,
               windows, mcast_calls, listen_port, protocol_stopped>>

\* BeaconingSocketProtocol: the beacons sent and received
VARIABLES
    wall,                   \* time.time(), which the time of a uuid1 is from
    tx_queue,               \* per uuid, the beacon sent
    rx_queue,               \* per uuid, the beacons received, in order
    protocol_hints,         \* protocol.topology_hints: per uuid, the hints
    outbox,                 \* the calls of send_beacon, in order
    json_hints,             \* what getJSONTopologyHints has just returned
    last_rx,                \* the latest packet received
    arrivals                \* the number of packets received so far

beaconvars == <<wall, tx_queue, rx_queue, protocol_hints, outbox, json_hints,
                last_rx, arrivals>>

\* NetworksMonitoringService and NetworksMonitoringLock of
\* provisioningserver.utils.services, as test_services.py 491-555 drives them
VARIABLES
    lock_holder,            \* who holds the lock of the host, or NoHolder
    running,                \* per service, whether it is running
    locked,                 \* per service, whether it holds the lock
    recorded,               \* per service, service.interfaces
    iterations,             \* the number of updateInterfaces calls
    last_iteration,         \* the latest updateInterfaces call
    interfaces_definition,  \* what get_all_interfaces_definition() returns
    recorded_definition,    \* per service, the definition it knows recorded
    refresh_failed          \* per service, whether its latest refresh failed

monitorvars == <<lock_holder, running, locked, recorded, iterations,
                 last_iteration, interfaces_definition, recorded_definition,
                 refresh_failed>>

servicevars == <<schedvars, beaconvars, monitorvars>>

vars == <<passvars, servicevars>>

\* test_services.py 1423-1465: bursts are five seconds apart
Window == 5

\* test_services.py 1446-1449: the first request comes at second 6 of the
\* monotonic clock, and no burst is on record
StartTime == Window + 1

NoTimer == 0 - 1
NoBurst == [at |-> 0 - 1, kind |-> "", requests |-> << >>, previous |-> 0 - 1]

InitScheduler ==
    /\ now = StartTime
    /\ mcast_requested = FALSE
    /\ mcast_solicitation = FALSE
    /\ last_solicited_mcast = 0
    /\ mcast_timer = NoTimer
    /\ queued = << >>
    /\ last_burst = NoBurst
    /\ windows = 0
    /\ mcast_calls = 0
    /\ listen_port = "none"
    /\ protocol_stopped = FALSE

\* uuid1() of a beacon made at a time: the time is part of the uuid
Uuid(time, k) == time * 100 + k
uuid_time(uuid) == uuid \div 100

NoPacket == [check |-> "none"]

\* the age, in the seconds of the model, after which an entry is dropped
RetentionWindow == 1

\* the time the protocol starts at
StartWall == RetentionWindow + 1

Snapshot(tx, rx, hints, out) ==
    [tx_queue |-> tx, rx_queue |-> rx, protocol_hints |-> hints,
     outbox |-> out]

InitBeaconing ==
    /\ wall = StartWall
    /\ tx_queue = << >>
    /\ rx_queue = << >>
    /\ protocol_hints = << >>
    /\ outbox = << >>
    /\ json_hints = << >>
    /\ last_rx = NoPacket
    /\ arrivals = 0

\* the services of one host, and a holder of the lock that is none of them
Monitors == {"rackd", "regiond"}
Outsider == "other"
NoHolder == ""
NoIteration ==
    [service |-> "", held |-> FALSE, holds |-> FALSE, refreshed |-> FALSE,
     recorded |-> FALSE]

\* the interface configurations of the host, and none
Definitions == {1, 2}
NoDefinition == None

InitMonitoring ==
    /\ lock_holder = NoHolder
    /\ running = [m \in Monitors |-> FALSE]
    /\ locked = [m \in Monitors |-> FALSE]
    /\ recorded = [m \in Monitors |-> << >>]
    /\ iterations = 0
    /\ last_iteration = NoIteration
    /\ interfaces_definition = 1
    /\ recorded_definition = [m \in Monitors |-> NoDefinition]
    /\ refresh_failed = [m \in Monitors |-> FALSE]

InitServices == InitScheduler /\ InitBeaconing /\ InitMonitoring

NodeKey == [n \in Nodes |-> IF n = "A" THEN 1 ELSE 2]

\* a node that runs no pass
IdleTxn ==
    [pc |-> "idle", interfaces |-> << >>, create_fabrics |-> TRUE,
     process_order |-> << >>, current_interfaces |-> {}, locks |-> {},
     created |-> {}, waiting |-> {}]

Init ==
    /\ db = EmptyStore
    /\ pc = "idle"
    /\ node = "A"
    /\ interfaces = << >>
    /\ topology_hints = NoHints
    /\ create_fabrics = TRUE
    /\ process_order = << >>
    /\ current_interfaces = {}
    /\ before = EmptyStore
    /\ processed = << >>
    /\ deleted = << >>
    /\ pre = EmptyStore
    /\ last = None
    /\ repeat = FALSE
    /\ passes = 0
    /\ txn = [n \in Nodes |-> IdleTxn]
    /\ candidates = << >>
    /\ guessed = None
    /\ deletions = << >>
    /\ InitServices

\* network.py 44-61: the pass begins
Begin(n, request, cf, rep) ==
    LET db0 == [db EXCEPT !.log = {}]
    IN  /\ db' = db0
        /\ before' = db0
        /\ pre' = db0
        /\ last' = None
        /\ pc' = "update"
        /\ node' = n
        /\ interfaces' = request.interfaces
        /\ topology_hints' = request.hints
        /\ create_fabrics' = cf
        /\ current_interfaces' = {i \in DOMAIN db.interfaces :
                                    db.interfaces[i].node = n}
        /\ process_order' = process_order_of(request.interfaces)
        /\ processed' = << >>
        /\ deleted' = << >>
        /\ repeat' = rep
        /\ passes' = passes + 1
        /\ deletions' = << >>
        /\ UNCHANGED servicevars
        /\ UNCHANGED <<txn, candidates, guessed>>

StartPass ==
    /\ pc = "idle"
    /\ passes < MaxPasses
    /\ \E n \in Nodes, request \in Requests, cf \in BOOLEAN :
           Begin(n, request, cf, FALSE)

\* the same call once more, right after it returned
RepeatPass ==
    /\ pc = "done"
    /\ passes < MaxPasses
    /\ Begin(node, [interfaces |-> interfaces, hints |-> topology_hints],
             create_fabrics, TRUE)

\* network.py 66-83: one iteration of the loop, update_interface returning
UpdateInterface ==
    /\ pc = "update"
    /\ process_order # << >>
    /\ \E rev \in BOOLEAN :
         \E r \in {update_interface(db, node, Head(process_order),
                                    interfaces[Head(process_order)],
                                    create_fabrics, topology_hints, rev)} :
             /\ ~r.raised
             /\ db' = r.db
             /\ pre' = db
             /\ last' = r.id
             /\ current_interfaces' = current_interfaces \ {r.id}
             /\ process_order' = Tail(process_order)
             /\ processed' = Append(processed, Head(process_order))
    /\ UNCHANGED servicevars
    /\ UNCHANGED <<pc, node, interfaces, topology_hints, create_fabrics,
                   before, deleted, repeat, passes, txn,
                   candidates, guessed, deletions>>

\* transactional: an error leaves the transaction; its writes are undone
transactional(db_before, db_now) == db_before

\* a variant of RaiseError whose writes stay in the store
RaiseErrorCommitted ==
    /\ pc = "update"
    /\ process_order # << >>
    /\ \E rev \in BOOLEAN :
         \E r \in {update_interface(db, node, Head(process_order),
                                    interfaces[Head(process_order)],
                                    create_fabrics, topology_hints, rev)} :
             /\ r.raised
             /\ db' = r.db
             /\ pre' = db
    /\ pc' = "failed"
    /\ UNCHANGED servicevars
    /\ UNCHANGED <<node, interfaces, topology_hints, create_fabrics,
                   process_order, current_interfaces, before, processed,
                   deleted, last, repeat, passes, txn,
                   candidates, guessed, deletions>>

\* network.py 66-77 and 24-25: update_interface raises, the pass aborts
RaiseError ==
    /\ pc = "update"
    /\ process_order # << >>
    /\ \E rev \in BOOLEAN :
         \E r \in {update_interface(db, node, Head(process_order),
                                    interfaces[Head(process_order)],
                                    create_fabrics, topology_hints, rev)} :
             /\ r.raised
             /\ db' = transactional(before, r.db)
             /\ pre' = db
    /\ pc' = "failed"
    /\ UNCHANGED servicevars
    /\ UNCHANGED <<node, interfaces, topology_hints, create_fabrics,
                   process_order, current_interfaces, before, processed,
                   deleted, last, repeat, passes, txn,
                   candidates, guessed, deletions>>

\* network.py 85-88: no deletion while fabrics are not created
ReturnEarly ==
    /\ pc = "update"
    /\ process_order = << >>
    /\ ~create_fabrics
    /\ pc' = "done"
    /\ UNCHANGED servicevars
    /\ UNCHANGED <<db, node, interfaces, topology_hints, create_fabrics,
                   process_order, current_interfaces, before, processed,
                   deleted, pre, last, repeat, passes, txn,
                   candidates, guessed, deletions>>

\* the batches of network.py 92-100, each sorted by id
deletion_batches(store, leftover) ==
    With({sorttop([nic_id \in leftover |->
              IF nic_id \in DOMAIN store.interfaces
              THEN store.interfaces[nic_id].parents \cap leftover
              ELSE {}])},
         LAMBDA batches : [i \in DOMAIN batches |-> sorted_ids(batches[i])])

\* a variant of deletion_order_of without reversed()
deletion_order_parents_first(store, leftover) ==
    flatten(deletion_batches(store, leftover))

\* a variant of deletion_order_of that stops after the first batch
deletion_order_top_batch(store, leftover) ==
    With({deletion_batches(store, leftover)},
         LAMBDA batches : IF batches = << >> THEN << >> ELSE Head(batches))

\* network.py 92-101: the order in which the leftover interfaces are deleted
deletion_order_of(store, leftover) ==
    reversed(flatten(deletion_batches(store, leftover)))

\* network.py 102-105: the loop of deletions
RECURSIVE delete_loop(_, _)
delete_loop(store, order) ==
    IF order = << >> THEN store
    ELSE With({delete_interface(store, Head(order))},
              LAMBDA store1 : delete_loop(store1, Tail(order)))

\* a variant of clear_boot_interface that leaves the reference
keep_boot_interface(boot_interface_id, delete_id) == boot_interface_id

\* network.py 103-104: node.boot_interface_id after the test of one id
clear_boot_interface(boot_interface_id, delete_id) ==
    IF boot_interface_id = delete_id THEN None ELSE boot_interface_id

\* network.py 102-105: for each delete() of the loop, the id it deletes and
\* node.boot_interface_id at that moment
RECURSIVE boot_interface_loop(_, _)
boot_interface_loop(boot_interface_id, order) ==
    IF order = << >> THEN << >>
    ELSE With({clear_boot_interface(boot_interface_id, Head(order))},
              LAMBDA cleared :
                  <<[id |-> Head(order), boot_interface_id |-> cleared]>>
                      \o boot_interface_loop(cleared, Tail(order)))

\* network.py 90-106: the deletion pass
DeleteInterfaces ==
    /\ pc = "update"
    /\ process_order = << >>
    /\ create_fabrics
    /\ \E deletion_order \in {deletion_order_of(db, current_interfaces)} :
         \E db1 \in {delete_loop(db, deletion_order)} :
         \E calls \in {boot_interface_loop(before.boot_interface[node],
                                           deletion_order)} :
           /\ deleted' = deletion_order
           /\ deletions' = calls
           /\ pre' = db
           /\ db' = Logged([db1 EXCEPT !.boot_interface[node] =
                              IF calls = << >>
                              THEN before.boot_interface[node]
                              ELSE calls[Len(calls)].boot_interface_id],
                           "save", "node", NodeKey[node])
    /\ pc' = "done"
    /\ UNCHANGED servicevars
    /\ UNCHANGED <<node, interfaces, topology_hints, create_fabrics,
                   process_order, current_interfaces, before, processed,
                   last, repeat, passes, txn, candidates, guessed>>

\* the call has returned: its locals are gone
Finish ==
    /\ pc \in {"done", "failed"}
    /\ pc' = "idle"
    /\ node' = "A"
    /\ interfaces' = << >>
    /\ topology_hints' = NoHints
    /\ create_fabrics' = TRUE
    /\ process_order' = << >>
    /\ current_interfaces' = {}
    /\ before' = EmptyStore
    /\ processed' = << >>
    /\ deleted' = << >>
    /\ pre' = EmptyStore
    /\ last' = None
    /\ repeat' = FALSE
    /\ db' = [db EXCEPT !.log = {}]
    /\ UNCHANGED servicevars
    /\ UNCHANGED <<passes, txn,
                   candidates, guessed, deletions>>

Next ==
    \/ StartPass
    \/ RepeatPass
    \/ UpdateInterface
    \/ RaiseError
    \/ ReturnEarly
    \/ DeleteInterfaces
    \/ Finish

Spec == Init /\ [][Next]_vars

-----------------------------------------------------------------------------
(* The processing order alone, network.py 58-61, over every desired state  *)
(* of up to four interfaces whose parents are desired interfaces.          *)

OrderNames == {"bond0", "br0", "eth0", "eth1"}

\* the names reached from a name by following parents, at most k + 1 times
RECURSIVE Ancestors(_, _, _)
Ancestors(parents, name, k) ==
    IF k = 0 THEN parents[name]
    ELSE With({Ancestors(parents, name, k - 1)}, LAMBDA up :
             up \cup UNION {parents[a] : a \in up})

\* the parent relation of the data model is acyclic
Acyclic(parents) ==
    \A name \in DOMAIN parents :
        name \notin Ancestors(parents, name, Cardinality(DOMAIN parents))

ParentMaps ==
    UNION {{parents \in [names -> SUBSET names] : Acyclic(parents)} :
              names \in SUBSET OrderNames}

\* the desired state of a parent map: interfaces without parents are
\* physical, the others are bridges over them
DesiredOf(parents) ==
    [name \in DOMAIN parents |->
        IF parents[name] = {} THEN Physical("m1", TRUE, << >>)
        ELSE Bridge(sorted(parents[name], NameRank), "m1", << >>)]

InitOrder ==
    /\ db = EmptyStore
    /\ pc = "order"
    /\ node = "A"
    /\ interfaces \in {DesiredOf(parents) : parents \in ParentMaps}
    /\ topology_hints = NoHints
    /\ create_fabrics = TRUE
    /\ process_order = << >>
    /\ current_interfaces = {}
    /\ before = EmptyStore
    /\ processed = << >>
    /\ deleted = << >>
    /\ pre = EmptyStore
    /\ last = None
    /\ repeat = FALSE
    /\ passes = 0
    /\ txn = [n \in Nodes |-> IdleTxn]
    /\ candidates = << >>
    /\ guessed = None
    /\ deletions = << >>
    /\ InitServices

\* network.py 58-61
SortInterfaces ==
    /\ pc = "order"
    /\ process_order' = process_order_of(interfaces)
    /\ pc' = "ordered"
    /\ UNCHANGED servicevars
    /\ UNCHANGED <<db, node, interfaces, topology_hints, create_fabrics,
                   current_interfaces, before, processed, deleted, pre,
                   last, repeat, passes, txn,
                   candidates, guessed, deletions>>

NextOrder == SortInterfaces

SpecOrder == InitOrder /\ [][NextOrder]_vars

-----------------------------------------------------------------------------
(* Two passes side by side, one per node.  A statement that writes a row   *)
(* takes the lock of the row and keeps it until its transaction commits; a *)
(* statement that needs a row the other transaction has locked waits.  The *)
(* interface rows a transaction has created are not seen by the other one  *)
(* before it commits.                                                      *)

\* the desired states of the passes that run side by side
ConcRequests ==
    { "eth0" :> Physical("m1", TRUE, << >>),
      "eth0" :> Physical("m1", TRUE, << >>)
          @@ "eth1" :> Physical("m2", TRUE, << >>),
      "eth0" :> Physical("m2", TRUE, << >>)
          @@ "eth1" :> Physical("m1", TRUE, << >>) }

\* Bound on the number of passes of one behaviour of SpecConc.
MaxConcPasses == 3

Other(p) == CHOOSE q \in Nodes : q # p

\* the rows a statement wrote, from the write log it left
written(store) == {<<w[2], w[3]>> : w \in store.log}

\* the store as the pass of p sees it
visible(p) ==
    [db EXCEPT !.interfaces = Remove(@, txn[Other(p)].created)]

\* the store of all rows, from the store the pass of p saw and wrote
merged(store, p) ==
    [store EXCEPT !.interfaces =
        @ @@ [i \in txn[Other(p)].created \cap DOMAIN db.interfaces |->
                 db.interfaces[i]],
                  !.log = {}]

\* network.py 66-77: update_interface for the next name of the pass of p
conc_update(p, rev) ==
    update_interface(visible(p), p, Head(txn[p].process_order),
                     txn[p].interfaces[Head(txn[p].process_order)],
                     txn[p].create_fabrics, NoHints, rev)

\* network.py 90-106: the deletion pass of the pass of p
conc_delete(p) ==
    Logged(delete_loop(visible(p),
               deletion_order_of(visible(p), txn[p].current_interfaces)),
           "save", "node", NodeKey[p])

\* the store after the next statement of the pass of p
conc_next(p, rev) ==
    IF txn[p].process_order # << >> THEN conc_update(p, rev).db
    ELSE IF txn[p].create_fabrics THEN conc_delete(p)
    ELSE visible(p)

\* network.py 44-61
ConcStart(p) ==
    /\ txn[p].pc = "idle"
    /\ passes < MaxConcPasses
    /\ \E request \in ConcRequests, cf \in BOOLEAN :
          txn' = [txn EXCEPT ![p] =
                     [pc |-> "update", interfaces |-> request,
                      create_fabrics |-> cf,
                      process_order |-> process_order_of(request),
                      current_interfaces |->
                          {i \in DOMAIN visible(p).interfaces :
                              db.interfaces[i].node = p},
                      locks |-> {}, created |-> {}, waiting |-> {}]]
    /\ passes' = passes + 1
    /\ UNCHANGED servicevars
    /\ UNCHANGED <<db, pc, node, interfaces, topology_hints, create_fabrics,
                   process_order, current_interfaces, before, processed,
                   deleted, pre, last, repeat, candidates, guessed,
                   deletions>>

\* network.py 66-83: one iteration of the loop, no row it writes being locked
ConcUpdate(p) ==
    /\ txn[p].pc = "update"
    /\ txn[p].process_order # << >>
    /\ \E rev \in BOOLEAN :
         \E r \in {conc_update(p, rev)} :
             /\ ~r.raised
             /\ written(r.db) \cap txn[Other(p)].locks = {}
             /\ db' = merged(r.db, p)
             /\ txn' = [txn EXCEPT ![p] =
                           [@ EXCEPT
                               !.process_order = Tail(@),
                               !.current_interfaces = @ \ {r.id},
                               !.locks = @ \cup written(r.db),
                               !.created = @ \cup (DOMAIN r.db.interfaces
                                                     \ DOMAIN db.interfaces)]]
    /\ UNCHANGED servicevars
    /\ UNCHANGED <<pc, node, interfaces, topology_hints, create_fabrics,
                   process_order, current_interfaces, before, processed,
                   deleted, pre, last, repeat, passes,
                   candidates, guessed, deletions>>

\* the next statement of the pass of p needs a row the other pass has locked
ConcWait(p) ==
    /\ txn[p].pc = "update"
    /\ \E rev \in BOOLEAN :
         \E rows \in {written(conc_next(p, rev)) \cap txn[Other(p)].locks} :
             /\ rows # {}
             /\ txn' = [txn EXCEPT ![p] =
                           [@ EXCEPT !.pc = "blocked", !.waiting = rows]]
    /\ UNCHANGED servicevars
    /\ UNCHANGED <<db, pc, node, interfaces, topology_hints, create_fabrics,
                   process_order, current_interfaces, before, processed,
                   deleted, pre, last, repeat, passes,
                   candidates, guessed, deletions>>

\* the rows the pass of p waited for are free again
ConcResume(p) ==
    /\ txn[p].pc = "blocked"
    /\ txn[p].waiting \cap txn[Other(p)].locks = {}
    /\ txn' = [txn EXCEPT ![p] = [@ EXCEPT !.pc = "update", !.waiting = {}]]
    /\ UNCHANGED servicevars
    /\ UNCHANGED <<db, pc, node, interfaces, topology_hints, create_fabrics,
                   process_order, current_interfaces, before, processed,
                   deleted, pre, last, repeat, passes,
                   candidates, guessed, deletions>>

\* network.py 85-88
ConcReturn(p) ==
    /\ txn[p].pc = "update"
    /\ txn[p].process_order = << >>
    /\ ~txn[p].create_fabrics
    /\ txn' = [txn EXCEPT ![p] = [@ EXCEPT !.pc = "commit"]]
    /\ UNCHANGED servicevars
    /\ UNCHANGED <<db, pc, node, interfaces, topology_hints, create_fabrics,
                   process_order, current_interfaces, before, processed,
                   deleted, pre, last, repeat, passes,
                   candidates, guessed, deletions>>

\* network.py 90-106, no row it writes being locked
ConcDelete(p) ==
    /\ txn[p].pc = "update"
    /\ txn[p].process_order = << >>
    /\ txn[p].create_fabrics
    /\ \E store \in {conc_delete(p)} :
          /\ written(store) \cap txn[Other(p)].locks = {}
          /\ db' = merged(store, p)
          /\ txn' = [txn EXCEPT ![p] =
                        [@ EXCEPT !.pc = "commit",
                                  !.locks = @ \cup written(store)]]
    /\ UNCHANGED servicevars
    /\ UNCHANGED <<pc, node, interfaces, topology_hints, create_fabrics,
                   process_order, current_interfaces, before, processed,
                   deleted, pre, last, repeat, passes,
                   candidates, guessed, deletions>>

\* network.py 24-25: the transaction of the pass commits, its locks go
ConcCommit(p) ==
    /\ txn[p].pc = "commit"
    /\ txn' = [txn EXCEPT ![p] = IdleTxn]
    /\ UNCHANGED servicevars
    /\ UNCHANGED <<db, pc, node, interfaces, topology_hints, create_fabrics,
                   process_order, current_interfaces, before, processed,
                   deleted, pre, last, repeat, passes,
                   candidates, guessed, deletions>>

NextConc ==
    \/ \E p \in Nodes : ConcStart(p)
    \/ \E p \in Nodes : ConcUpdate(p)
    \/ \E p \in Nodes : ConcWait(p)
    \/ \E p \in Nodes : ConcResume(p)
    \/ \E p \in Nodes : ConcReturn(p)
    \/ \E p \in Nodes : ConcDelete(p)
    \/ \E p \in Nodes : ConcCommit(p)

SpecConc == Init /\ [][NextConc]_vars

-----------------------------------------------------------------------------
(* Passes with create_fabrics true over desired states with many links:    *)
(* update_links, network.py 504-652, and update_vlan_interface, 256-304.   *)

\* the desired states of these passes
LinkRequests ==
    { "eth0" :> Physical("m1", TRUE, <<Static(<<5, 1>>, <<5, 254>>)>>)
          @@ "eth1" :> Physical("m2", TRUE, <<Static(<<6, 1>>, <<5, 9>>)>>),
      "eth0" :> Physical("m1", TRUE, <<Static(<<5, 1>>, <<5, 253>>)>>),
      "eth0" :> Physical("m1", TRUE, <<Dhcp(NoAddress), Dhcp(<<5, 7>>)>>),
      "eth0" :> Physical("m1", TRUE, <<Dhcp(<<6, 7>>)>>)
          @@ "eth1" :> Physical("m2", TRUE, <<Dhcp(<<5, 7>>)>>),
      "eth0" :> Physical("m1", TRUE, << >>)
          @@ "eth1" :> Physical("m2", TRUE, <<Static(<<5, 1>>, NoAddress)>>),
      "eth0" :> Physical("m1", TRUE, << >>)
          @@ "eth0.10" :> Vlan("eth0", 10, "m1",
                               <<Static(<<5, 2>>, NoAddress),
                                 Static(<<6, 2>>, <<6, 254>>)>>),
      "eth0" :> Physical("m1", TRUE, << >>)
          @@ "eth0.10" :> Vlan("eth0", 10, "m1", << >>),
      "eth0" :> Physical("m3", TRUE, <<Static(<<5, 3>>, <<5, 253>>),
                                       Static(<<6, 3>>, NoAddress)>>) }

\* Bound on the number of passes of one behaviour of SpecLinks.
MaxLinkPasses == 2

StartLinksPass ==
    /\ pc = "idle"
    /\ passes < MaxLinkPasses
    /\ \E n \in Nodes, request \in LinkRequests :
           Begin(n, [interfaces |-> request, hints |-> NoHints], TRUE, FALSE)

NextLinks ==
    \/ StartLinksPass
    \/ UpdateInterface
    \/ RaiseError
    \/ DeleteInterfaces
    \/ Finish

SpecLinks == Init /\ [][NextLinks]_vars

-----------------------------------------------------------------------------
(* Passes for nodes that have a boot interface: between passes the         *)
(* boot_interface of a node is pointed at one of the node's interfaces.    *)

\* the desired states of the passes, none of which makes a step raise
BootRequests ==
    { "eth0" :> Physical("m1", TRUE, << >>)
          @@ "eth1" :> Physical("m2", TRUE, << >>),
      "eth0" :> Physical("m1", TRUE, << >>),
      "eth0" :> Physical("m3", TRUE, << >>),
      "eth0" :> Physical("m1", TRUE, << >>)
          @@ "eth0.10" :> Vlan("eth0", 10, "m1", << >>),
      << >> }

\* Bound on the number of passes of one behaviour of SpecBoot.
MaxBootPasses == 2

StartBootPass ==
    /\ pc = "idle"
    /\ passes < MaxBootPasses
    /\ \E n \in Nodes, request \in BootRequests, cf \in BOOLEAN :
           Begin(n, [interfaces |-> request, hints |-> NoHints], cf, FALSE)

\* Node.boot_interface is set to one of the interfaces of the node
SetBootInterface ==
    /\ pc = "idle"
    /\ \E n \in Nodes, id \in DOMAIN db.interfaces :
          /\ db.interfaces[id].node = n
          /\ db.boot_interface[n] # id
          /\ db' = [db EXCEPT !.boot_interface[n] = id]
    /\ UNCHANGED servicevars
    /\ UNCHANGED <<pc, node, interfaces, topology_hints, create_fabrics,
                   process_order, current_interfaces, before, processed,
                   deleted, pre, last, repeat, passes, txn, candidates,
                   guessed, deletions>>

NextBoot ==
    \/ StartBootPass
    \/ SetBootInterface
    \/ UpdateInterface
    \/ ReturnEarly
    \/ DeleteInterfaces
    \/ Finish

SpecBoot == Init /\ [][NextBoot]_vars

-----------------------------------------------------------------------------
(* guess_best_vlan_from_ip_addresses, network.py 493-501, applied to any   *)
(* sequence of the address records that passes have left in the store.     *)

\* the desired states of the passes that fill the store
GuessRequests ==
    { "eth0" :> Physical("m1", TRUE, <<Static(<<5, 1>>, NoAddress),
                                       Dhcp(<<5, 7>>)>>)
          @@ "eth1" :> Physical("m2", TRUE, <<Static(<<6, 1>>, NoAddress),
                                              Dhcp(<<6, 7>>)>>),
      "eth0" :> Physical("m1", TRUE, <<Dhcp(NoAddress)>>) }

\* Bounds on the number of passes of one behaviour of SpecGuess and on the
\* number of records handed to guess_best_vlan_from_ip_addresses.
MaxGuessPasses == 2
MaxCandidates == 3

StartGuessPass ==
    /\ pc = "idle"
    /\ passes < MaxGuessPasses
    /\ \E n \in Nodes, request \in GuessRequests :
           Begin(n, [interfaces |-> request, hints |-> NoHints], TRUE, FALSE)

\* network.py 493-501, called with a sequence of records of the store
GuessBestVlan ==
    /\ pc = "idle"
    /\ \E k \in 0..MaxCandidates :
         \E ip_addresses \in [1..k -> DOMAIN db.addresses] :
             /\ candidates' = ip_addresses
             /\ guessed' = guess_best_vlan_from_ip_addresses(db, ip_addresses)
    /\ pc' = "guessed"
    /\ UNCHANGED servicevars
    /\ UNCHANGED <<db, node, interfaces, topology_hints, create_fabrics,
                   process_order, current_interfaces, before, processed,
                   deleted, pre, last, repeat, passes, txn, deletions>>

NextGuess ==
    \/ StartGuessPass
    \/ UpdateInterface
    \/ DeleteInterfaces
    \/ Finish
    \/ GuessBestVlan

SpecGuess == Init /\ [][NextGuess]_vars

-----------------------------------------------------------------------------
(* Passes with create_fabrics true whose desired states come with topology *)
(* hints: guess_vlan_from_hints, network.py 212-253.                       *)

\* the desired states and hints of these passes
HintRequests ==
    { [interfaces |-> "eth0" :> Physical("m1", TRUE, << >>)
                   @@ "eth1" :> Physical("m2", TRUE, << >>)
                   @@ "eth2" :> Physical("m3", TRUE, << >>),
       hints |-> <<Hint("eth2", "same_local_fabric_as", "eth1", NoMac)>>],
      [interfaces |-> "eth0" :> Physical("m1", TRUE, << >>)
                   @@ "eth1" :> Physical("m2", TRUE, << >>),
       hints |-> <<Hint("eth1", "rx_own_beacon_on_other_interface", "eth0",
                        NoMac)>>],
      [interfaces |-> "eth0" :> Physical("m4", TRUE, << >>)
                   @@ "eth1" :> Physical("m5", TRUE, << >>),
       hints |-> <<[Hint("eth0", "on_remote_network", "eth0", "m1")
                        EXCEPT !.vid = 10],
                   Hint("eth1", "routable_to", "eth1", NoMac),
                   Hint("eth0", "on_remote_network", "eth1", "m2"),
                   Hint("eth0", "routable_to", "eth0", "m1")>>] }

\* Bound on the number of passes of one behaviour of SpecHints.
MaxHintPasses == 2

StartHintsPass ==
    /\ pc = "idle"
    /\ passes < MaxHintPasses
    /\ \E n \in Nodes, request \in HintRequests :
           Begin(n, request, TRUE, FALSE)

NextHints ==
    \/ StartHintsPass
    \/ UpdateInterface
    \/ DeleteInterfaces
    \/ Finish

SpecHints == Init /\ [][NextHints]_vars

-----------------------------------------------------------------------------
(* The multicast queue of BeaconingSocketProtocol, as the tests of         *)
(* test_services.py 1401-1511 drive it with a fake clock.                  *)

\* Bounds on the time of one behaviour and on the requests of one burst.
MaxTime == 12
MaxQueued == 2

\* a variant of request_solicitation: the latest request decides
latest_request(flag, solicitation) == solicitation

\* test_services.py 1490-1511: a request for a solicitation is remembered
\* until the burst
request_solicitation(flag, solicitation) == flag \/ solicitation

\* a variant of mcast_delays without a delay
no_delay(elapsed) == {0}

\* test_services.py 1401-1465: the delay of the dequeue, given the time
\* since the latest burst: none after the window (request at 6, burst at
\* 6), the whole window inside it (request 4 seconds after the burst,
\* nothing after 4.9 more seconds, the burst after 5).  No test asks at the
\* very end of the window.
mcast_delays(elapsed) ==
    IF elapsed > Window THEN {0}
    ELSE IF elapsed < Window THEN {Window}
    ELSE {0, Window}

\* queueMulticastBeaconing(solicitation)
QueueMulticastBeaconing ==
    /\ ~protocol_stopped
    /\ Len(queued) < MaxQueued
    /\ \E solicitation \in BOOLEAN :
          /\ mcast_solicitation' =
                 request_solicitation(mcast_solicitation, solicitation)
          /\ queued' = Append(queued, [at |-> now,
                                       solicitation |-> solicitation])
    /\ IF mcast_requested
       THEN UNCHANGED <<mcast_requested, mcast_timer, windows>>
       ELSE /\ mcast_requested' = TRUE
            /\ windows' = windows + 1
            /\ \E delay \in mcast_delays(now - last_solicited_mcast) :
                   mcast_timer' = now + delay
    /\ UNCHANGED <<now, last_solicited_mcast, last_burst, mcast_calls,
                   listen_port, protocol_stopped>>
    /\ UNCHANGED <<passvars, beaconvars, monitorvars>>

\* dequeueMulticastBeaconing, called by the reactor when the delay is over:
\* one call of send_multicast_beacons
DequeueMulticastBeaconing ==
    /\ mcast_timer # NoTimer
    /\ mcast_timer <= now
    /\ last_burst' = [at |-> now,
                      kind |-> IF mcast_solicitation THEN "solicitation"
                               ELSE "advertisement",
                      requests |-> queued,
                      previous |-> last_solicited_mcast]
    /\ mcast_calls' = mcast_calls + 1
    /\ mcast_requested' = FALSE
    /\ mcast_solicitation' = FALSE
    /\ last_solicited_mcast' = now
    /\ mcast_timer' = NoTimer
    /\ queued' = << >>
    /\ UNCHANGED <<now, windows, listen_port, protocol_stopped>>
    /\ UNCHANGED <<passvars, beaconvars, monitorvars>>

\* clock.advance(1): a second passes; a call that is due is made first.
\* After stopProtocol the clock is followed until the burst that was queued
\* would have been due.
Tick ==
    /\ now < MaxTime
    /\ mcast_timer = NoTimer \/ now < mcast_timer
    /\ protocol_stopped =>
          mcast_requested /\ now < queued[1].at + Window
    /\ now' = now + 1
    /\ UNCHANGED <<mcast_requested, mcast_solicitation, last_solicited_mcast,
                   mcast_timer, queued, last_burst, windows, mcast_calls,
                   listen_port, protocol_stopped>>
    /\ UNCHANGED <<passvars, beaconvars, monitorvars>>

\* test_services.py 1016-1030: a protocol made with a reactor that can
\* listen opens its port when it is made; one made with a Clock has none
Listen ==
    /\ ~protocol_stopped
    /\ listen_port = "none"
    /\ windows = 0
    /\ now = StartTime
    /\ listen_port' = "open"
    /\ UNCHANGED <<now, mcast_requested, mcast_solicitation,
                   last_solicited_mcast, mcast_timer, queued, last_burst,
                   windows, mcast_calls, protocol_stopped>>
    /\ UNCHANGED <<passvars, beaconvars, monitorvars>>

\* a variant of cancel_timer that leaves the call pending
leave_timer(timer) == timer

\* the timer of the queued burst after stopProtocol(): none
cancel_timer(timer) == NoTimer

\* stopProtocol(): the port, if there is one, stops listening and the
\* queued burst is cancelled
StopProtocol ==
    /\ ~protocol_stopped
    /\ protocol_stopped' = TRUE
    /\ listen_port' = IF listen_port = "open" THEN "closed" ELSE listen_port
    /\ mcast_timer' = cancel_timer(mcast_timer)
    /\ UNCHANGED <<now, mcast_requested, mcast_solicitation,
                   last_solicited_mcast, queued, last_burst, windows,
                   mcast_calls>>
    /\ UNCHANGED <<passvars, beaconvars, monitorvars>>

NextSched ==
    \/ QueueMulticastBeaconing
    \/ DequeueMulticastBeaconing
    \/ Tick
    \/ Listen
    \/ StopProtocol

SpecSched == Init /\ [][NextSched]_vars

-----------------------------------------------------------------------------
(* Beacons sent and received by BeaconingSocketProtocol, as the tests of   *)
(* test_services.py 1032-1399 drive it.                                    *)

\* Bounds on the beacons sent and received in one behaviour and on the time.
MaxSent == 2
MaxReceived == 2
MaxWall == 4

\* TopologyHint of provisioningserver.utils.beaconing
TopologyHint(ifname, vid, hint, related_ifname, related_vid, related_mac) ==
    [ifname |-> ifname, vid |-> vid, hint |-> hint,
     related_ifname |-> related_ifname, related_vid |-> related_vid,
     related_mac |-> related_mac]

\* test_services.py 988-1007: a beacon, with what it says of the interface
\* it was sent from, and the uuid it acknowledges
BeaconPayload(uuid, type, ifname, vid, mac, acks) ==
    [uuid |-> uuid, type |-> type, ifname |-> ifname, vid |-> vid,
     mac |-> mac, acks |-> acks]

\* a variant of age_out_uuid_queue that drops nothing
keep_uuid_queue(queue, time) == queue

\* the entries of a queue whose uuid is not older than the retention window
age_out_uuid_queue(queue, time) ==
    [uuid \in {u \in DOMAIN queue : time - uuid_time(u) <= RetentionWindow}
        |-> queue[uuid]]

\* a variant of verified that accepts every packet
unverified(packet) == TRUE

\* the packet is well formed and signed with the current secret or the one
\* before it
verified(packet) == packet.check \in {"current", "previous"}

\* a variant of own_beacon_hints that does not look at the interface the
\* beacon came back on
own_beacon_on_tx_interface(rx, sent) ==
    {TopologyHint(rx.interface, rx.vid, "rx_own_beacon_on_tx_interface",
                  "", NoVid, NoMac)}

\* test_services.py 1141-1202: the hint for a beacon of ours
own_beacon_hints(rx, sent) ==
    IF rx.interface = sent.ifname
    THEN {TopologyHint(rx.interface, rx.vid, "rx_own_beacon_on_tx_interface",
                       "", NoVid, NoMac)}
    ELSE IF rx.vid = NoVid /\ sent.vid = NoVid
    THEN {TopologyHint(rx.interface, rx.vid,
                       "rx_own_beacon_on_other_interface",
                       sent.ifname, sent.vid, NoMac)}
    ELSE {}

\* a variant of remote_fabric_hints that does not look at how the beacon
\* arrived
always_on_remote_network(rx, payload) ==
    IF payload.vid # NoVid
    THEN {TopologyHint(rx.interface, rx.vid, "on_remote_network",
                       payload.ifname, payload.vid, payload.mac)}
    ELSE {}

\* test_services.py 1264-1353: the hint for a beacon of another sender
remote_fabric_hints(rx, payload) ==
    IF payload.vid # NoVid
    THEN {TopologyHint(rx.interface, rx.vid,
                       IF rx.multicast THEN "on_remote_network"
                       ELSE "routable_to",
                       payload.ifname, payload.vid, payload.mac)}
    ELSE {}

\* a variant of duplicate_beacon_hints: from the latest reception only
one_way_beacon_hints(receptions) ==
    {TopologyHint(receptions[Len(receptions)].interface,
                  receptions[Len(receptions)].vid, "same_local_fabric_as",
                  receptions[j].interface, receptions[j].vid, NoMac) :
        j \in {k \in DOMAIN receptions :
                  receptions[k].interface
                      # receptions[Len(receptions)].interface}}

\* test_services.py 1204-1262: the hints for a beacon received on more than
\* one interface
duplicate_beacon_hints(receptions) ==
    {TopologyHint(receptions[i].interface, receptions[i].vid,
                  "same_local_fabric_as",
                  receptions[j].interface, receptions[j].vid, NoMac) :
        <<i, j>> \in {p \in (DOMAIN receptions) \X (DOMAIN receptions) :
                        receptions[p[1]].interface
                            # receptions[p[2]].interface}}

\* a variant of must_reply that answers every beacon of another sender
reply_to_all(payload, own) == ~own

\* test_services.py 1032-1078: a solicitation that is not ours is answered
must_reply(payload, own) == payload.type = "solicitation" /\ ~own

Lookup(queue, uuid, default) ==
    IF uuid \in DOMAIN queue THEN queue[uuid] ELSE default

\* beaconReceived(beacon) for a packet that passed verification
beacon_received(tx, rx, hints, out, packet, time) ==
    LET payload == packet.payload
        uuid == payload.uuid
        own == uuid \in DOMAIN tx
        reception == [interface |-> packet.interface, vid |-> packet.vid,
                      multicast |-> packet.multicast,
                      source |-> packet.source, payload |-> payload]
        receptions == Append(Lookup(rx, uuid, << >>), reception)
        new_hints ==
            (IF own THEN own_beacon_hints(reception, tx[uuid])
             ELSE remote_fabric_hints(reception, payload))
            \cup duplicate_beacon_hints(receptions)
        acked == IF payload.acks # None THEN Remove(tx, {payload.acks})
                 ELSE tx
        reply == BeaconPayload(Uuid(time, Len(out) + 1), "advertisement",
                               packet.interface, packet.vid, NoMac, uuid)
    IN  IF must_reply(payload, own)
        THEN Snapshot(age_out_uuid_queue((reply.uuid :> reply) @@ acked,
                                         time),
                      age_out_uuid_queue((uuid :> receptions) @@ rx, time),
                      (uuid :> (Lookup(hints, uuid, {}) \cup new_hints))
                          @@ hints,
                      Append(out, [beacon |-> reply,
                                   destination |-> packet.source]))
        ELSE Snapshot(age_out_uuid_queue(acked, time),
                      age_out_uuid_queue((uuid :> receptions) @@ rx, time),
                      (uuid :> (Lookup(hints, uuid, {}) \cup new_hints))
                          @@ hints,
                      out)

\* the keys of a hint that have a value
set_fields(hint) ==
    {"ifname", "hint"}
        \cup (IF hint.vid # NoVid THEN {"vid"} ELSE {})
        \cup (IF hint.related_ifname # "" THEN {"related_ifname"} ELSE {})
        \cup (IF hint.related_vid # NoVid THEN {"related_vid"} ELSE {})
        \cup (IF hint.related_mac # NoMac THEN {"related_mac"} ELSE {})

\* a variant of hint_dictionary with every key
whole_dictionary(hint) == hint

\* test_services.py 1355-1399: the dictionary of a hint
hint_dictionary(hint) == [key \in set_fields(hint) |-> hint[key]]

RECURSIVE as_list(_)
as_list(S) ==
    IF S = {} THEN << >>
    ELSE With({CHOOSE x \in S : TRUE},
              LAMBDA x : <<x>> \o as_list(S \ {x}))

\* getJSONTopologyHints(): the hints of every uuid, as dictionaries
getJSONTopologyHints(hints) ==
    as_list({hint_dictionary(h) :
                h \in UNION {hints[u] : u \in DOMAIN hints}})

Packet(check, payload, port, multicast, source) ==
    [check |-> check, payload |-> payload, interface |-> port[1],
     vid |-> port[2], multicast |-> multicast, source |-> source]

\* the beacons of other senders
TaggedPayload ==
    BeaconPayload(Uuid(StartWall, 51), "advertisement", "eth1", 100, "m9",
                  None)
UntaggedPayload ==
    BeaconPayload(Uuid(StartWall, 52), "solicitation", "eth0", NoVid, NoMac,
                  None)

\* the beacon we sent last, coming back
EchoPayloads == {outbox[i].beacon : i \in DOMAIN outbox \cap {Len(outbox)}}

\* the advertisement of another sender that acknowledges the solicitation we
\* sent last
AckPayloads ==
    {BeaconPayload(Uuid(wall, 60 + i), "advertisement", "eth1", NoVid, "m9",
                   outbox[i].beacon.uuid) :
        i \in {k \in DOMAIN outbox \cap {Len(outbox)} :
                  outbox[k].beacon.type = "solicitation"}}

\* the packets that can arrive
Packets ==
    {Packet("current", TaggedPayload, port, multicast, "peer") :
        port \in {<<"eth0", NoVid>>, <<"eth0", 200>>},
        multicast \in BOOLEAN}
    \cup {Packet("current", UntaggedPayload, port, TRUE, "peer") :
             port \in {<<"eth0", NoVid>>, <<"eth1", 100>>}}
    \cup {Packet("current", payload, port, TRUE, "self") :
             payload \in EchoPayloads,
             port \in {<<"eth0", NoVid>>, <<"eth1", NoVid>>}}
    \cup {Packet("current", payload, <<"eth0", NoVid>>, FALSE, "peer") :
             payload \in AckPayloads}
    \cup {Packet(check, UntaggedPayload, <<"eth1", NoVid>>, TRUE, "peer") :
             check \in {"bad_signature", "malformed"}}

Received(rx) == UNION {{<<u, i>> : i \in DOMAIN rx[u]} : u \in DOMAIN rx}

\* send_beacon(beacon, destination) with a new solicitation; the
\* advertisements sent are the replies of beaconReceived
SendBeacon ==
    /\ Len(outbox) < MaxSent
    /\ \E beacon \in {BeaconPayload(Uuid(wall, Len(outbox) + 1),
                                     "solicitation", "eth0", NoVid, "m1",
                                     None)} :
          /\ tx_queue' = age_out_uuid_queue((beacon.uuid :> beacon)
                                                @@ tx_queue, wall)
          /\ outbox' = Append(outbox, [beacon |-> beacon,
                                       destination |-> "group"])
    /\ rx_queue' = age_out_uuid_queue(rx_queue, wall)
    /\ json_hints' = << >>
    /\ UNCHANGED <<wall, protocol_hints, last_rx, arrivals>>
    /\ UNCHANGED <<passvars, schedvars, monitorvars>>

\* a packet arrives: it is verified and, if it passes, beaconReceived runs
BeaconReceived ==
    /\ arrivals < MaxReceived
    /\ arrivals' = arrivals + 1
    /\ \E packet \in Packets :
          /\ last_rx' = packet
          /\ IF verified(packet)
             THEN /\ must_reply(packet.payload,
                                packet.payload.uuid \in DOMAIN tx_queue)
                         => Len(outbox) < MaxSent
                  /\ \E after \in {beacon_received(tx_queue, rx_queue,
                                        protocol_hints, outbox, packet,
                                        wall)} :
                        /\ tx_queue' = after.tx_queue
                        /\ rx_queue' = after.rx_queue
                        /\ protocol_hints' = after.protocol_hints
                        /\ outbox' = after.outbox
             ELSE UNCHANGED <<tx_queue, rx_queue, protocol_hints, outbox>>
    /\ json_hints' = << >>
    /\ UNCHANGED wall
    /\ UNCHANGED <<passvars, schedvars, monitorvars>>

\* getJSONTopologyHints()
GetJSONTopologyHints ==
    /\ json_hints' = getJSONTopologyHints(protocol_hints)
    /\ UNCHANGED <<wall, tx_queue, rx_queue, protocol_hints, outbox, last_rx,
                   arrivals>>
    /\ UNCHANGED <<passvars, schedvars, monitorvars>>

\* a second passes
TimePasses ==
    /\ wall < MaxWall
    /\ wall' = wall + 1
    /\ json_hints' = << >>
    /\ UNCHANGED <<tx_queue, rx_queue, protocol_hints, outbox, last_rx,
                   arrivals>>
    /\ UNCHANGED <<passvars, schedvars, monitorvars>>

NextBeacon ==
    \/ SendBeacon
    \/ BeaconReceived
    \/ GetJSONTopologyHints
    \/ TimePasses

SpecBeacon == Init /\ [][NextBeacon]_vars

-----------------------------------------------------------------------------
(* NetworksMonitoringService: the monitors of one host and the lock they    *)
(* share, as test_services.py 491-555 drives them.                          *)

\* Bound on the updateInterfaces calls of one behaviour.
MaxIterations == 4

\* a variant of acquire_lock that takes the lock from whoever holds it
take_lock(holder, service) == service

\* NetworksMonitoringLock: the holder after the service tried to take the
\* lock; it gets it only when nobody holds it
acquire_lock(holder, service) ==
    IF holder = NoHolder THEN service ELSE holder

\* startService(), or the test's service.running = 1
StartService(service) ==
    /\ ~running[service]
    /\ running' = [running EXCEPT ![service] = TRUE]
    /\ UNCHANGED <<lock_holder, locked, recorded, iterations, last_iteration>>
    /\ UNCHANGED <<interfaces_definition, recorded_definition, refresh_failed>>
    /\ UNCHANGED <<passvars, schedvars, beaconvars>>

\* a variant of must_refresh that refreshes at every iteration
always_refresh(observed, known) == TRUE

\* test_services.py 419-489: the refresh runs when the configuration is not
\* the one the service knows to be recorded
must_refresh(observed, known) == observed # known

\* updateInterfaces(): one iteration; a service that does not hold the lock
\* tries to take it; a holder reads the configuration and, when it is not
\* the one it knows to be recorded, runs the refresh, which records the
\* interfaces when it succeeds and leaves nothing known when it fails
UpdateInterfaces(service) ==
    /\ running[service]
    /\ iterations < MaxIterations
    /\ iterations' = iterations + 1
    /\ \E holder \in {IF locked[service] THEN lock_holder
                       ELSE acquire_lock(lock_holder, service)} :
          /\ lock_holder' = holder
          /\ locked' = [locked EXCEPT ![service] = (holder = service)]
          /\ IF /\ holder = service
                /\ must_refresh(interfaces_definition,
                                recorded_definition[service])
             THEN \E succeeds \in BOOLEAN :
                     /\ recorded' =
                           IF succeeds
                           THEN [recorded EXCEPT ![service] =
                                    Append(@, interfaces_definition)]
                           ELSE recorded
                     /\ recorded_definition' =
                           [recorded_definition EXCEPT ![service] =
                               IF succeeds THEN interfaces_definition
                               ELSE NoDefinition]
                     /\ refresh_failed' =
                           [refresh_failed EXCEPT ![service] = ~succeeds]
                     /\ last_iteration' = [service |-> service,
                                           held |-> locked[service],
                                           holds |-> TRUE,
                                           refreshed |-> TRUE,
                                           recorded |-> succeeds]
             ELSE /\ last_iteration' = [service |-> service,
                                        held |-> locked[service],
                                        holds |-> holder = service,
                                        refreshed |-> FALSE,
                                        recorded |-> FALSE]
                  /\ UNCHANGED <<recorded, recorded_definition,
                                 refresh_failed>>
    /\ UNCHANGED <<running, interfaces_definition>>
    /\ UNCHANGED <<passvars, schedvars, beaconvars>>

\* the interfaces of the host are configured differently
DefinitionChanges ==
    /\ \E definition \in Definitions \ {interfaces_definition} :
          interfaces_definition' = definition
    /\ UNCHANGED <<lock_holder, running, locked, recorded, iterations,
                   last_iteration, recorded_definition, refresh_failed>>
    /\ UNCHANGED <<passvars, schedvars, beaconvars>>

\* stopService(): the lock is released
StopService(service) ==
    /\ running[service]
    /\ running' = [running EXCEPT ![service] = FALSE]
    /\ locked' = [locked EXCEPT ![service] = FALSE]
    /\ lock_holder' = IF locked[service] THEN NoHolder ELSE lock_holder
    /\ UNCHANGED <<recorded, iterations, last_iteration>>
    /\ UNCHANGED <<interfaces_definition, recorded_definition, refresh_failed>>
    /\ UNCHANGED <<passvars, schedvars, beaconvars>>

\* "with lock:" in a test: somebody else takes the lock of the host
LockTaken ==
    /\ lock_holder = NoHolder
    /\ lock_holder' = Outsider
    /\ UNCHANGED <<running, locked, recorded, iterations, last_iteration>>
    /\ UNCHANGED <<interfaces_definition, recorded_definition, refresh_failed>>
    /\ UNCHANGED <<passvars, schedvars, beaconvars>>

\* the end of the "with lock:" block
LockReleased ==
    /\ lock_holder = Outsider
    /\ lock_holder' = NoHolder
    /\ UNCHANGED <<running, locked, recorded, iterations, last_iteration>>
    /\ UNCHANGED <<interfaces_definition, recorded_definition, refresh_failed>>
    /\ UNCHANGED <<passvars, schedvars, beaconvars>>

NextMonitor ==
    \/ \E service \in Monitors : StartService(service)
    \/ \E service \in Monitors : UpdateInterfaces(service)
    \/ \E service \in Monitors : StopService(service)
    \/ LockTaken
    \/ LockReleased
    \/ DefinitionChanges

SpecMonitor == Init /\ [][NextMonitor]_vars

-----------------------------------------------------------------------------
(* Properties of a pass.                                                   *)

\* the rows of a store, without its write log and id sequences
Rows(store) ==
    [interfaces |-> store.interfaces, vlans |-> store.vlans,
     fabrics |-> store.fabrics, subnets |-> store.subnets,
     addresses |-> store.addresses, boot_interface |-> store.boot_interface]

\* network.py 116-126: the types update_interface dispatches on
KnownTypes == {"physical", "vlan", "bond", "bridge"}

\* the ids of a deletion pass, and the pairs of it where one is the parent of
\* the other in the store the deletion pass started from
ParentDeletedAt(i, j) ==
    /\ deleted[i] \in DOMAIN pre.interfaces
    /\ deleted[j] \in pre.interfaces[deleted[i]].parents

\* C2: in the deletion pass every interface is deleted before each of its
\* parents that the same pass deletes (children first, parents after).
C2_ChildrenDeletedFirst ==
    (pc = "done" /\ create_fabrics) =>
        \A i, j \in DOMAIN deleted : ParentDeletedAt(i, j) => i < j

\* a deletion pass that deleted an interface and one of its parents
C2_Witness ==
    /\ pc = "done"
    /\ create_fabrics
    /\ \E i, j \in DOMAIN deleted : ParentDeletedAt(i, j)

\* a pass that repeats, with no hints, the pass that just returned
SecondPassDone == pc = "done" /\ repeat /\ topology_hints = NoHints

\* C4 as stated: a pass repeated with the same desired state and no hints
\* writes nothing to the store.
C4_NoWritesOnSecondPass == SecondPassDone => db.log = {}

\* the physical interface rows of a store
PhysicalRows(store) ==
    {i \in DOMAIN store.interfaces : store.interfaces[i].type = "physical"}

\* the fields update_physical_interface sets besides the VLAN
Identity(row) ==
    [node |-> row.node, name |-> row.name, mac_address |-> row.mac_address,
     enabled |-> row.enabled]

\* C4, amended: a pass repeated with the same desired state and no hints
\* creates and deletes no physical interface row and leaves the node, name,
\* mac and enabled flag of every physical interface as they were.
C4_SecondPassKeepsInterfaces ==
    SecondPassDone =>
        /\ PhysicalRows(db) = PhysicalRows(before)
        /\ \A i \in PhysicalRows(db) :
              Identity(db.interfaces[i]) = Identity(before.interfaces[i])

\* a repeated pass that wrote to the store and whose node has interfaces
C4_Witness ==
    /\ SecondPassDone
    /\ db.log # {}
    /\ \E i \in PhysicalRows(db) :
          db.interfaces[i].node = node /\ db.interfaces[i].ip_addresses # {}

\* the desired interfaces of unknown type
Unknown(name) == interfaces[name].type \notin KnownTypes

\* C5 as stated: update_interface returns for no interface of unknown type,
\* so the pass goes no further than the first one, whatever create_fabrics is.
C5_UnknownTypeStopsThePass ==
    \A k \in DOMAIN processed : ~Unknown(processed[k])

\* C5, amended: with create_fabrics true the pass stops with an error at the
\* first interface of unknown type and processes none after it; with
\* create_fabrics false no pass fails and the interface is passed over.
C5_UnknownTypeStopsWhenCreatingFabrics ==
    /\ create_fabrics =>
          /\ \A k \in DOMAIN processed : ~Unknown(processed[k])
          /\ (pc = "update" /\ process_order # << >>
                /\ Unknown(Head(process_order)))
             => ~ENABLED UpdateInterface
    /\ ~create_fabrics => pc # "failed"

\* a pass with create_fabrics true that failed at an interface of unknown
\* type, after some interfaces and before others
C5_Witness ==
    /\ pc = "failed"
    /\ create_fabrics
    /\ Unknown(Head(process_order))
    /\ processed # << >>
    /\ Len(process_order) > 1

\* C6: a pass that aborts leaves the rows of the store as they were when it
\* began.
C6_AbortLeavesStore == pc = "failed" => Rows(db) = Rows(before)

\* a pass that failed after it had written to the store
C6_Witness ==
    /\ pc = "failed"
    /\ processed # << >>
    /\ Rows(pre) # Rows(before)

Renamed(row) ==
    /\ row.type = "physical"
    /\ row.node = node
    /\ row.name \in DOMAIN interfaces
    /\ interfaces[row.name].type = "physical"
    /\ interfaces[row.name].mac_address # row.mac_address

Absent(i) ==
    /\ before.interfaces[i].node = node
    /\ before.interfaces[i].name \notin DOMAIN interfaces
    /\ \A name \in DOMAIN interfaces :
          interfaces[name].mac_address # before.interfaces[i].mac_address

\* C8: after a pass with create_fabrics true, the interfaces stored for the
\* node that matched no desired interface are gone, and every parent of every
\* interface is a row of the store.
C8_UnmatchedDeleted ==
    (pc = "done" /\ create_fabrics) =>
        /\ current_interfaces \cap DOMAIN db.interfaces = {}
        /\ \A i \in DOMAIN before.interfaces :
              Absent(i) => i \notin DOMAIN db.interfaces
        /\ \A i \in DOMAIN db.interfaces :
              db.interfaces[i].parents \subseteq DOMAIN db.interfaces

\* a pass whose desired state dropped a bond and its only parent
C8_Witness ==
    /\ pc = "done"
    /\ create_fabrics
    /\ \E b, p \in DOMAIN before.interfaces :
          /\ before.interfaces[b].type = "bond"
          /\ before.interfaces[b].parents = {p}
          /\ Absent(b) /\ Absent(p)
          /\ {b, p} \subseteq Range(deleted)
          /\ {b, p} \cap DOMAIN db.interfaces = {}

\* the desired physical interfaces with the mac of a stored row
DesiredWithMac(mac_address) ==
    {name \in DOMAIN interfaces :
        /\ interfaces[name].type = "physical"
        /\ interfaces[name].mac_address = mac_address}

\* a physical row that was another node's when the pass began and whose mac
\* the desired state of this pass declares
Moved(i) ==
    /\ before.interfaces[i].type = "physical"
    /\ before.interfaces[i].node # node
    /\ DesiredWithMac(before.interfaces[i].mac_address) # {}

\* C9: a physical interface whose mac was registered to another node is,
\* after the pass, an interface of the node of the pass; none of the address
\* records linked to it before the pass is linked to it, and it has no link
\* at all when the pass declares none for it.
C9_MovedInterface ==
    pc = "done" =>
        \A i \in DOMAIN before.interfaces :
            Moved(i) =>
                /\ i \in DOMAIN db.interfaces
                /\ db.interfaces[i].node = node
                /\ db.interfaces[i].ip_addresses
                       \cap before.interfaces[i].ip_addresses = {}
                /\ (\A name \in
                        DesiredWithMac(before.interfaces[i].mac_address) :
                            interfaces[name].links = << >>)
                   => db.interfaces[i].ip_addresses = {}

\* a pass that moved an interface that had address links
C9_Witness ==
    /\ pc = "done"
    /\ \E i \in DOMAIN before.interfaces :
          /\ Moved(i)
          /\ before.interfaces[i].ip_addresses # {}
          /\ db.interfaces[i].node = node

\* the latest step of the pass: the name, its configuration, and the store
\* it looked up the interface in (network.py 152-163)
LastName == processed[Len(processed)]
LastConfig == interfaces[LastName]
AtGuess ==
    delete_interfaces(pre, same_name_other_mac(pre, node, LastName,
                                               LastConfig.mac_address))

\* the latest step was about an enabled physical interface without a VLAN,
\* in a pass with create_fabrics true
GuessedVlan ==
    /\ pc = "update"
    /\ processed # << >>
    /\ create_fabrics
    /\ LastConfig.type = "physical"
    /\ LastConfig.enabled
    /\ last \in DOMAIN db.interfaces
    /\ last \in DOMAIN AtGuess.interfaces => AtGuess.interfaces[last].vlan = None

HintVlan == guess_vlan_from_hints(AtGuess, node, LastName, topology_hints)
LinksVlan == get_interface_vlan_from_links(AtGuess, LastConfig.links)
DefaultVlanFree ==
    \A i \in DOMAIN AtGuess.interfaces :
        AtGuess.interfaces[i].vlan # get_default_vlan(AtGuess)
FinalVlan == db.interfaces[last].vlan

ChildStep ==
    /\ pc = "update"
    /\ processed # << >>
    /\ create_fabrics
    /\ LastConfig.type \in {"bond", "bridge"}
    /\ last \in DOMAIN db.interfaces

\* the child of the latest step and its parents
Family == {last} \cup db.interfaces[last].parents

\* the links of the latest step of a mode that have an address
AddressedLinks(modes) ==
    {i \in DOMAIN LastConfig.links :
        /\ LastConfig.links[i].mode \in modes
        /\ LastConfig.links[i].address # NoAddress}

\* the VLANs of the subnets of the addresses of those links
LinkVlans(modes) ==
    {db.subnets[cidr_of(LastConfig.links[i].address)].vlan :
        i \in AddressedLinks(modes)}

\* the VLANs of the subnets, known before the step, of the addresses of the
\* links of the latest step
KnownLinkVlans ==
    {pre.subnets[cidr_of(LastConfig.links[i].address)].vlan :
        i \in {j \in AddressedLinks({"static", "dhcp"}) :
                 cidr_of(LastConfig.links[j].address) \in DOMAIN pre.subnets}}

VlanStep ==
    /\ pc = "update"
    /\ processed # << >>
    /\ create_fabrics
    /\ LastConfig.type = "vlan"
    /\ last \in DOMAIN db.interfaces

\* the single parent of the vlan-type interface of a configuration, in a
\* store, and the Fabric of the parent
ParentNic(store, config) ==
    CHOOSE i \in DOMAIN store.interfaces :
        /\ store.interfaces[i].node = node
        /\ store.interfaces[i].name = config.parents[1]
ParentFabric(store, config) ==
    store.vlans[store.interfaces[ParentNic(store, config)].vlan].fabric

\* the VLANs of a store with the declared vid in the Fabric of the parent
DeclaredVlans(store) ==
    {v \in DOMAIN store.vlans :
        /\ store.vlans[v].fabric = ParentFabric(pre, LastConfig)
        /\ store.vlans[v].vid = LastConfig.vid}

\* the next step is about a vlan-type interface whose links are in a subnet
\* of a VLAN with another vid or in another Fabric than the parent
MismatchAhead ==
    /\ pc = "update"
    /\ process_order # << >>
    /\ create_fabrics
    /\ interfaces[Head(process_order)].type = "vlan"
    /\ \E i \in DOMAIN db.interfaces :
          /\ db.interfaces[i].node = node
          /\ db.interfaces[i].name = interfaces[Head(process_order)].parents[1]
          /\ db.interfaces[i].vlan # None
    /\ \E v \in {get_interface_vlan_from_links(db,
                      interfaces[Head(process_order)].links)} :
          /\ v # None
          /\ \/ db.vlans[v].vid # interfaces[Head(process_order)].vid
             \/ db.vlans[v].fabric #
                    ParentFabric(db, interfaces[Head(process_order)])

\* C12: a vlan-type interface ends on the VLAN of a subnet of its links when
\* there is one, and no VLAN is created then; otherwise on the VLAN with the
\* declared vid in the Fabric of its parent, which is created only when the
\* Fabric has none with that vid.  A VLAN from the links with another vid or
\* Fabric does not keep the step from returning the interface.
C12_VlanInterfaceVlan ==
    /\ VlanStep =>
          IF get_interface_vlan_from_links(pre, LastConfig.links) # None
          THEN /\ FinalVlan = get_interface_vlan_from_links(pre,
                                  LastConfig.links)
               /\ DOMAIN db.vlans = DOMAIN pre.vlans
          ELSE /\ FinalVlan \in DeclaredVlans(db)
               /\ IF DeclaredVlans(pre) # {}
                  THEN /\ FinalVlan \in DeclaredVlans(pre)
                       /\ DOMAIN db.vlans = DOMAIN pre.vlans
                  ELSE DOMAIN db.vlans \ DOMAIN pre.vlans = {FinalVlan}
    /\ MismatchAhead => ENABLED UpdateInterface

\* a vlan-type interface put on the VLAN of its links, which has another
\* vid than the declared one
C12_Witness ==
    /\ VlanStep
    /\ get_interface_vlan_from_links(pre, LastConfig.links) # None
    /\ db.vlans[FinalVlan].vid # LastConfig.vid
    /\ FinalVlan = get_interface_vlan_from_links(pre, LastConfig.links)

\* a vlan-type interface put on the VLAN its parent's Fabric already had
\* for the declared vid
C12_WitnessDeclared ==
    /\ VlanStep
    /\ get_interface_vlan_from_links(pre, LastConfig.links) = None
    /\ FinalVlan \in DeclaredVlans(pre)

-----------------------------------------------------------------------------
(* Properties of the names of physical interfaces.                         *)

\* the physical interfaces of a node with a name in a store
PhysicalNamed(store, n, name) ==
    {i \in DOMAIN store.interfaces :
        /\ store.interfaces[i].type = "physical"
        /\ store.interfaces[i].node = n
        /\ store.interfaces[i].name = name}

\* the latest step was about a physical interface
PhysicalStep ==
    /\ pc = "update"
    /\ processed # << >>
    /\ LastConfig.type = "physical"

\* after the step about the physical interface named N with mac M, the
\* physical interfaces of the node that had the name N and another mac are
\* deleted, and the one physical interface of the node named N has mac M
SameNameDeleted ==
    PhysicalStep =>
        /\ same_name_other_mac(pre, node, LastName, LastConfig.mac_address)
               \cap DOMAIN db.interfaces = {}
        /\ PhysicalNamed(db, node, LastName) = {last}
        /\ db.interfaces[last].mac_address = LastConfig.mac_address

\* no node has two physical interfaces with the same name
NoSharedName ==
    \A i, j \in DOMAIN db.interfaces :
        /\ db.interfaces[i].type = "physical"
        /\ db.interfaces[j].type = "physical"
        /\ db.interfaces[i].node = db.interfaces[j].node
        /\ db.interfaces[i].name = db.interfaces[j].name
        => i = j

\* the desired physical interfaces other than one that declare its mac
SharingMac(name) ==
    {other \in DOMAIN interfaces \ {name} :
        /\ interfaces[other].type = "physical"
        /\ interfaces[other].mac_address = interfaces[name].mac_address}

\* every physical interface of the node with a desired name has the mac
\* declared under the name
NamedHaveMac(name) ==
    \A i \in PhysicalNamed(db, node, name) :
        db.interfaces[i].mac_address = interfaces[name].mac_address

\* C19 as stated: after each pass the node has, for every desired physical
\* interface named N with mac M, an interface named N, and it has mac M.
C19_NamedInterfaceHasMac ==
    /\ SameNameDeleted
    /\ NoSharedName
    /\ pc = "done" =>
          \A name \in DOMAIN interfaces :
              interfaces[name].type = "physical" =>
                  /\ NamedHaveMac(name)
                  /\ PhysicalNamed(db, node, name) # {}

\* C19: the step about the physical interface named N with mac M deletes
\* the other physical interfaces of the node named N with another mac, no
\* node ever has two physical interfaces with the same name, and after a
\* pass every physical interface of the node named N has mac M; there is
\* one unless another desired physical interface declares the mac M too.
C19_NamedInterfaceHasMacUnlessShared ==
    /\ SameNameDeleted
    /\ NoSharedName
    /\ pc = "done" =>
          \A name \in DOMAIN interfaces :
              interfaces[name].type = "physical" =>
                  /\ NamedHaveMac(name)
                  /\ SharingMac(name) = {} =>
                         PhysicalNamed(db, node, name) # {}

\* a step deleted a physical interface of the node with the name of the
\* step and another mac, and the pass has ended
C19_Witness ==
    /\ pc = "done"
    /\ \E name \in DOMAIN interfaces :
          /\ interfaces[name].type = "physical"
          /\ same_name_other_mac(before, node, name,
                                 interfaces[name].mac_address) # {}
          /\ PhysicalNamed(db, node, name) # {}

\* a step is about a name that another physical interface of the node has
C19_WitnessStep ==
    /\ PhysicalStep
    /\ same_name_other_mac(pre, node, LastName, LastConfig.mac_address) # {}

-----------------------------------------------------------------------------
(* Properties of the boot interface.                                       *)

\* the interfaces that were stored when the pass began and are gone
DeletedByPass == DOMAIN before.interfaces \ DOMAIN db.interfaces

\* C20: when an interface is deleted in the deletion pass, the boot
\* interface reference the node object holds does not point to it: it was
\* cleared first if it did.  After a pass the stored reference of the node
\* does not point to an interface the pass deleted, and it is none if the
\* boot interface was among the interfaces of the deletion pass.
C20_BootInterfaceCleared ==
    pc = "done" =>
        /\ \A k \in DOMAIN deletions :
              deletions[k].boot_interface_id # deletions[k].id
        /\ before.boot_interface[node] \in Range(deleted) =>
              db.boot_interface[node] = None
        /\ db.boot_interface[node] \notin DeletedByPass
        /\ db.boot_interface[node] \notin Range(deleted)

\* the deletion pass deleted the boot interface of the node, after another
\* interface
C20_Witness ==
    /\ pc = "done"
    /\ create_fabrics
    /\ \E k \in DOMAIN deleted :
          /\ k > 1
          /\ deleted[k] = before.boot_interface[node]
          /\ deleted[k] \in DOMAIN pre.interfaces
    /\ db.boot_interface[node] = None

\* the boot interface of the node was deleted by the step of its name, and
\* the deletion pass found its id among the leftover interfaces
C20_WitnessSameName ==
    /\ pc = "done"
    /\ create_fabrics
    /\ before.boot_interface[node] \in Range(deleted)
    /\ before.boot_interface[node] \notin DOMAIN pre.interfaces

-----------------------------------------------------------------------------
(* Properties of update_links, network.py 504-652.                         *)

\* the latest step returned an interface after update_links had processed
\* the links declared for it
LinksStep ==
    /\ pc = "update"
    /\ processed # << >>
    /\ create_fabrics
    /\ last \in DOMAIN db.interfaces

\* the address records linked to the interface when update_links was called:
\* none for a new interface and for one taken from another node (178-182)
LinkedBefore ==
    IF last \in DOMAIN pre.interfaces /\ pre.interfaces[last].node = node
    THEN pre.interfaces[last].ip_addresses
    ELSE {}

\* the address records linked to the interface after the step
LinkedAfter == db.interfaces[last].ip_addresses

\* the declared links of a mode
LinksOfMode(mode) ==
    {i \in DOMAIN LastConfig.links : LastConfig.links[i].mode = mode}

\* the records of a type among a set of records of a store
OfType(store, records, alloc_type) ==
    {a \in records : store.addresses[a].alloc_type = alloc_type}

\* the records the step created
CreatedRecords == DOMAIN db.addresses \ DOMAIN pre.addresses

\* C13 as stated: with a dhcp link declared, one DHCP-type record is linked
\* to the interface afterwards, and one is created only when none was linked.
C13_ExactlyOneDhcpRecord ==
    (LinksStep /\ LinksOfMode("dhcp") # {}) =>
        /\ Cardinality(OfType(db, LinkedAfter, DHCP)) = 1
        /\ OfType(db, CreatedRecords, DHCP) # {}
              => OfType(pre, LinkedBefore, DHCP) = {}

\* C13, amended: afterwards the interface has as many DHCP-type records as
\* dhcp links were declared; one is created for each dhcp link beyond the
\* number of DHCP-type records linked before.
C13_OneDhcpRecordPerLink ==
    LinksStep =>
        /\ Cardinality(OfType(db, LinkedAfter, DHCP))
              = Cardinality(LinksOfMode("dhcp"))
        /\ Cardinality(OfType(db, CreatedRecords, DHCP))
              = IF Cardinality(LinksOfMode("dhcp"))
                      > Cardinality(OfType(pre, LinkedBefore, DHCP))
                THEN Cardinality(LinksOfMode("dhcp"))
                       - Cardinality(OfType(pre, LinkedBefore, DHCP))
                ELSE 0

\* one dhcp link declared for an interface that had two DHCP-type records:
\* one is kept, none is created
C13_Witness ==
    /\ LinksStep
    /\ Cardinality(LinksOfMode("dhcp")) = 1
    /\ Cardinality(OfType(pre, LinkedBefore, DHCP)) = 2
    /\ Cardinality(OfType(db, LinkedAfter, DHCP)) = 1
    /\ OfType(db, LinkedAfter, DHCP) \subseteq LinkedBefore

\* the declared static links of the latest step, by what update_links did
\* with them when called with force_vlan: skipped when the subnet of the link
\* was known on another VLAN than the interface's, applied otherwise
SkippedLinks ==
    {i \in LinksOfMode("static") :
        /\ cidr_of(LastConfig.links[i].address) \in DOMAIN pre.subnets
        /\ pre.subnets[cidr_of(LastConfig.links[i].address)].vlan # FinalVlan}
AppliedLinks == LinksOfMode("static") \ SkippedLinks

\* the records of a store with the address of a link
RecordsOf(store, link) ==
    {a \in DOMAIN store.addresses : store.addresses[a].ip = ip_of(link.address)}

\* the next step is about a vlan-type interface whose parent has a VLAN
VlanAhead ==
    /\ pc = "update"
    /\ process_order # << >>
    /\ create_fabrics
    /\ interfaces[Head(process_order)].type = "vlan"
    /\ \E i \in DOMAIN db.interfaces :
          /\ db.interfaces[i].node = node
          /\ db.interfaces[i].name = interfaces[Head(process_order)].parents[1]
          /\ db.interfaces[i].vlan # None

\* C14: update_links with force_vlan leaves alone a static link whose subnet
\* is on another VLAN than the interface: the gateway of the subnet stays,
\* no record with the address is created or changed, none is newly linked to
\* the interface; the other static links are applied and the step returns.
C14_MismatchedLinkSkipped ==
    /\ VlanStep =>
          /\ \A i \in SkippedLinks :
                /\ db.subnets[cidr_of(LastConfig.links[i].address)]
                      = pre.subnets[cidr_of(LastConfig.links[i].address)]
                /\ RecordsOf(db, LastConfig.links[i])
                      = RecordsOf(pre, LastConfig.links[i])
                /\ \A a \in RecordsOf(db, LastConfig.links[i]) :
                      /\ db.addresses[a] = pre.addresses[a]
                      /\ a \notin LinkedAfter \ LinkedBefore
          /\ \A i \in AppliedLinks :
                \E a \in RecordsOf(db, LastConfig.links[i]) \cap LinkedAfter :
                    /\ db.addresses[a].alloc_type = STICKY
                    /\ db.addresses[a].subnet
                          = cidr_of(LastConfig.links[i].address)
    /\ VlanAhead => ENABLED UpdateInterface

\* a vlan-type interface with an applied link and a skipped one, the skipped
\* one declaring a gateway for a subnet that has none
C14_Witness ==
    /\ VlanStep
    /\ AppliedLinks # {}
    /\ \E i \in SkippedLinks :
          /\ LastConfig.links[i].gateway # NoAddress
          /\ cidr_of(LastConfig.links[i].gateway)
                = cidr_of(LastConfig.links[i].address)
          /\ pre.subnets[cidr_of(LastConfig.links[i].address)].gateway_ip
                = NoAddress

\* the static links update_links applied in the latest step: all of them
\* but for the skipped ones of a vlan-type interface
AppliedStatic ==
    IF LastConfig.type = "vlan" THEN AppliedLinks ELSE LinksOfMode("static")

\* the interfaces, other than the one of the step, that a record was linked
\* to before the step and that are still stored
OtherHolders(a) ==
    {j \in (DOMAIN pre.interfaces \cap DOMAIN db.interfaces) \ {last} :
        a \in pre.interfaces[j].ip_addresses}

\* the record of the address of an applied static link is STICKY, in the
\* subnet of the link and linked to the interface
StickyAndLinked(a, link) ==
    /\ db.addresses[a].alloc_type = STICKY
    /\ db.addresses[a].subnet = cidr_of(link.address)
    /\ a \in LinkedAfter

\* C15 as stated: the address of an applied static link is a STICKY record
\* of the subnet of the link, linked to the interface and to no interface
\* that held it before, of whatever node.
C15_AddressTakenFromAll ==
    LinksStep =>
        \A i \in AppliedStatic :
            \E a \in RecordsOf(db, LastConfig.links[i]) :
                /\ StickyAndLinked(a, LastConfig.links[i])
                /\ \A j \in OtherHolders(a) :
                      a \notin db.interfaces[j].ip_addresses

\* C15, amended: the address of an applied static link is a STICKY record of
\* the subnet of the link, linked to the interface; it is no longer linked
\* to the interfaces of other nodes that held it, and still linked to the
\* interfaces of the same node that held it.
C15_AddressTakenFromOtherNodes ==
    LinksStep =>
        \A i \in AppliedStatic :
            \E a \in RecordsOf(db, LastConfig.links[i]) :
                /\ StickyAndLinked(a, LastConfig.links[i])
                /\ \A j \in OtherHolders(a) :
                      a \in db.interfaces[j].ip_addresses
                          <=> db.interfaces[j].node = node

\* a static link whose address was linked to an interface of another node
C15_Witness ==
    /\ LinksStep
    /\ \E i \in AppliedStatic :
          \E a \in RecordsOf(db, LastConfig.links[i]) :
              /\ StickyAndLinked(a, LastConfig.links[i])
              /\ \E j \in OtherHolders(a) :
                    /\ db.interfaces[j].node # node
                    /\ a \notin db.interfaces[j].ip_addresses

\* a record linked before the step is declared again by the links of the
\* step: its address is the address of a link, or it is a DHCP-type record
\* and there is a dhcp link
Redeclared(a) ==
    \/ /\ pre.addresses[a].alloc_type = DHCP
       /\ LinksOfMode("dhcp") # {}
    \/ /\ pre.addresses[a].ip # NoAddress
       /\ \E i \in DOMAIN LastConfig.links :
             LastConfig.links[i].address = pre.addresses[a].ip

\* C16: a record that was linked to the interface when update_links was
\* called and that the links of the call do not declare again is not linked
\* to the interface afterwards.
C16_UndeclaredUnlinked ==
    LinksStep =>
        \A a \in LinkedBefore : ~Redeclared(a) => a \notin LinkedAfter

\* a step that kept a declared STICKY record of the interface, or linked a
\* new one, and unlinked a STICKY record that was not declared again
C16_Witness ==
    /\ LinksStep
    /\ OfType(db, LinkedAfter, STICKY) # {}
    /\ \E a \in OfType(pre, LinkedBefore, STICKY) :
          /\ ~Redeclared(a)
          /\ a \notin LinkedAfter
          /\ a \in DOMAIN db.addresses

\* the gateway of a subnet in a store, none for a subnet the store lacks
GatewayOf(store, cidr) ==
    IF cidr \in DOMAIN store.subnets
    THEN store.subnets[cidr].gateway_ip
    ELSE NoAddress

\* a static link of the interface of the step that is being taken declares,
\* for a subnet, a gateway that is an address of the subnet
DeclaresGateway(cidr, gateway) ==
    /\ pc' = "update"
    /\ processed' # processed
    /\ gateway # NoAddress
    /\ cidr_of(gateway) = cidr
    /\ \E i \in DOMAIN LastConfig'.links :
          /\ LastConfig'.links[i].mode = "static"
          /\ cidr_of(LastConfig'.links[i].address) = cidr
          /\ LastConfig'.links[i].gateway = gateway

\* a step changes the gateway of a subnet only from none to the gateway a
\* static link of the step declares inside the subnet, or, when the pass
\* aborts, back to what it was when the pass started
GatewayStep ==
    \A cidr \in DOMAIN db.subnets \cup DOMAIN db'.subnets :
        GatewayOf(db', cidr) # GatewayOf(db, cidr) =>
            \/ /\ GatewayOf(db, cidr) = NoAddress
               /\ DeclaresGateway(cidr, GatewayOf(db', cidr))
            \/ /\ pc' = "failed"
               /\ GatewayOf(before, cidr) = NoAddress
               /\ GatewayOf(db', cidr) = NoAddress

\* the gateways that were set when the pass started are the same now
GatewayKept ==
    \A cidr \in DOMAIN before.subnets :
        GatewayOf(before, cidr) # NoAddress =>
            GatewayOf(db, cidr) = GatewayOf(before, cidr)

\* C18: a pass sets the gateway of a subnet from a static link only when the
\* subnet has no gateway and the declared gateway is an address of the
\* subnet; a gateway that is set is not changed by any sequence of passes.
C18_GatewaySetOnce == [][GatewayStep]_vars /\ []GatewayKept

\* a step with a static link that declares, inside a subnet that has a
\* gateway, another gateway: the gateway of the subnet stays
C18_Witness ==
    /\ LinksStep
    /\ \E i \in LinksOfMode("static") :
         \E cidr \in DOMAIN pre.subnets :
          /\ cidr_of(LastConfig.links[i].address) = cidr
          /\ GatewayOf(pre, cidr) # NoAddress
          /\ LastConfig.links[i].gateway # NoAddress
          /\ cidr_of(LastConfig.links[i].gateway) = cidr
          /\ LastConfig.links[i].gateway # GatewayOf(pre, cidr)
          /\ GatewayOf(db, cidr) = GatewayOf(pre, cidr)

\* a step with a static link that declares a gateway outside its subnet,
\* which has none: the subnet is left without a gateway
C18_WitnessOutside ==
    /\ LinksStep
    /\ \E i \in LinksOfMode("static") :
          /\ LastConfig.links[i].gateway # NoAddress
          /\ cidr_of(LastConfig.links[i].gateway)
                 # cidr_of(LastConfig.links[i].address)
          /\ GatewayOf(pre, cidr_of(LastConfig.links[i].address)) = NoAddress
          /\ GatewayOf(db, cidr_of(LastConfig.links[i].address)) = NoAddress

\* a step that set the gateway of a subnet
C18_WitnessSet ==
    /\ LinksStep
    /\ \E cidr \in DOMAIN db.subnets :
          /\ GatewayOf(pre, cidr) = NoAddress
          /\ GatewayOf(db, cidr) # NoAddress

-----------------------------------------------------------------------------
(* Properties of guess_best_vlan_from_ip_addresses.                        *)

\* the positions of the candidates that hold a record of a type
CandidatesOfType(alloc_type) ==
    {i \in DOMAIN candidates :
        db.addresses[candidates[i]].alloc_type = alloc_type}

\* the VLAN of the subnet of the candidate at a position
CandidateVlan(i) == db.subnets[db.addresses[candidates[i]].subnet].vlan

\* C17: guess_best_vlan_from_ip_addresses returns the VLAN of the first
\* STICKY record of the sequence; without one, the VLAN of the last
\* DISCOVERED record; without one, nothing.  DHCP-type records do not count.
C17_FirstStickyElseLastDiscovered ==
    pc = "guessed" =>
        IF CandidatesOfType(STICKY) # {}
        THEN \E i \in CandidatesOfType(STICKY) :
                 /\ \A j \in CandidatesOfType(STICKY) : i <= j
                 /\ guessed = CandidateVlan(i)
        ELSE IF CandidatesOfType(DISCOVERED) # {}
        THEN \E i \in CandidatesOfType(DISCOVERED) :
                 /\ \A j \in CandidatesOfType(DISCOVERED) : j <= i
                 /\ guessed = CandidateVlan(i)
        ELSE guessed = None

\* a call with a DHCP-type record and two DISCOVERED records of different
\* VLANs, and no STICKY record
C17_Witness ==
    /\ pc = "guessed"
    /\ CandidatesOfType(STICKY) = {}
    /\ CandidatesOfType(DHCP) # {}
    /\ \E i, j \in CandidatesOfType(DISCOVERED) :
          /\ i < j
          /\ CandidateVlan(i) # CandidateVlan(j)
          /\ guessed = CandidateVlan(j)

\* a call with a DISCOVERED record before two STICKY records of different
\* VLANs
C17_WitnessSticky ==
    /\ pc = "guessed"
    /\ \E d \in CandidatesOfType(DISCOVERED) :
         \E i, j \in CandidatesOfType(STICKY) :
          /\ d < i /\ i < j
          /\ CandidateVlan(i) # CandidateVlan(j)
          /\ CandidateVlan(i) # CandidateVlan(d)
          /\ guessed = CandidateVlan(i)

-----------------------------------------------------------------------------
(* Properties of the multicast queue.                                      *)

\* the requests of the latest burst that asked for a solicitation
Soliciting ==
    {i \in DOMAIN last_burst.requests : last_burst.requests[i].solicitation}

\* C21: the requests made while a burst is queued, however many, end in one
\* call of send_multicast_beacons: every queued burst is sent once, a burst
\* stands for at least one request, and its kind is solicitation if one of
\* its requests asked for a solicitation, advertisement otherwise.
C21_RequestsCoalesced ==
    /\ windows = mcast_calls + (IF mcast_requested THEN 1 ELSE 0)
    /\ mcast_requested <=> queued # << >>
    /\ ~protocol_stopped => (mcast_requested <=> mcast_timer # NoTimer)
    /\ last_burst # NoBurst =>
          /\ Len(last_burst.requests) >= 1
          /\ last_burst.kind = IF Soliciting # {} THEN "solicitation"
                               ELSE "advertisement"

\* one burst for two requests, the first of which asked for a solicitation
\* and the last for an advertisement
C21_Witness ==
    /\ last_burst # NoBurst
    /\ Len(last_burst.requests) = 2
    /\ last_burst.requests[1].solicitation
    /\ ~last_burst.requests[2].solicitation
    /\ last_burst.kind = "solicitation"
    /\ mcast_calls = 2

\* one burst for two requests for an advertisement
C21_WitnessAdvertisement ==
    /\ last_burst # NoBurst
    /\ Len(last_burst.requests) = 2
    /\ Soliciting = {}
    /\ last_burst.kind = "advertisement"

\* when the first request of the latest burst was made, and how long after
\* the burst before
FirstRequest == last_burst.requests[1].at
Elapsed == FirstRequest - last_burst.previous

Later(a, b) == IF a >= b THEN a ELSE b

\* C22 as stated: the burst is sent at the first moment that is not before
\* the request and is a window after the burst before.
C22_BurstWhenWindowCloses ==
    last_burst # NoBurst =>
        last_burst.at = Later(FirstRequest, last_burst.previous + Window)

\* C22: a request made more than a window after the latest burst is sent
\* without delay; one made inside the window is sent a whole window after
\* the request, which is not before the window closes; two bursts are never
\* less than a window apart.
C22_BurstAWindowAfterRequest ==
    last_burst # NoBurst =>
        /\ Elapsed > Window => last_burst.at = FirstRequest
        /\ Elapsed < Window => last_burst.at = FirstRequest + Window
        /\ last_burst.at \in {FirstRequest, FirstRequest + Window}
        /\ last_burst.at >= last_burst.previous + Window

\* a burst for a request made inside the window of the burst before, and
\* after it
C22_Witness ==
    /\ last_burst # NoBurst
    /\ mcast_calls >= 2
    /\ Elapsed > 0
    /\ Elapsed < Window
    /\ last_burst.at = FirstRequest + Window

\* a second burst for a request made after the window, sent without delay
C22_WitnessNoDelay ==
    /\ last_burst # NoBurst
    /\ mcast_calls >= 2
    /\ Elapsed > Window
    /\ last_burst.at = FirstRequest

-----------------------------------------------------------------------------
(* Properties of the beaconing service.                                    *)

\* a step that hands a verified packet to beaconReceived
Processes == arrivals' = arrivals + 1 /\ verified(last_rx')

\* a step that processes a beacon we sent and still remember
ProcessesOwnBeacon ==
    Processes /\ last_rx'.payload.uuid \in DOMAIN tx_queue

\* a step that processes a beacon under whose uuid nothing is recorded yet
FirstReception ==
    Processes /\ last_rx'.payload.uuid \notin DOMAIN protocol_hints

HintsOf(hints, uuid) == Lookup(hints, uuid, {})
Kinds(hints) == {h.hint : h \in hints}

\* a beacon of ours comes back for the first time
OwnBeaconStep ==
    (ProcessesOwnBeacon /\ FirstReception) =>
        LET rx == last_rx'
            sent == tx_queue[rx.payload.uuid]
            hints == HintsOf(protocol_hints', rx.payload.uuid)
        IN  /\ rx.interface = sent.ifname =>
                  /\ Cardinality(hints) = 1
                  /\ Kinds(hints) = {"rx_own_beacon_on_tx_interface"}
            /\ (/\ rx.interface # sent.ifname
                /\ rx.vid = NoVid
                /\ sent.vid = NoVid) =>
                  /\ Cardinality(hints) = 1
                  /\ Kinds(hints) = {"rx_own_beacon_on_other_interface"}

\* C23: a beacon of ours that comes back yields exactly one hint under its
\* uuid: of kind rx_own_beacon_on_tx_interface when it came back on the
\* interface it was sent from, of kind rx_own_beacon_on_other_interface when
\* it came back on another interface and neither side is tagged.
C23_OwnBeaconHint == [][OwnBeaconStep]_vars

\* the latest packet is a beacon of ours, still remembered
OwnBeaconReceived ==
    /\ arrivals > 0
    /\ verified(last_rx)
    /\ last_rx.payload.uuid \in DOMAIN tx_queue

\* a beacon sent from eth0 has come back on eth1, untagged
C23_Witness ==
    /\ OwnBeaconReceived
    /\ last_rx.interface = "eth1"
    /\ last_rx.vid = NoVid
    /\ tx_queue[last_rx.payload.uuid].ifname = "eth0"
    /\ Cardinality(HintsOf(protocol_hints, last_rx.payload.uuid)) = 1

\* a beacon sent from eth0 has come back on eth0
C23_WitnessSameInterface ==
    /\ OwnBeaconReceived
    /\ last_rx.interface = tx_queue[last_rx.payload.uuid].ifname
    /\ Cardinality(HintsOf(protocol_hints, last_rx.payload.uuid)) = 1

\* the uuids of the beacons we sent
OwnUuids == {outbox[i].beacon.uuid : i \in DOMAIN outbox}

SameLocalFabric(hints) == {h \in hints : h.hint = "same_local_fabric_as"}

Mirror(h) ==
    TopologyHint(h.related_ifname, h.related_vid, h.hint, h.ifname, h.vid,
                 h.related_mac)

\* C24: a beacon of another sender that was received on two distinct local
\* interfaces has a same_local_fabric_as hint in each direction under its
\* uuid, with the names and vids of the two receptions, and the
\* same_local_fabric_as hints of such a uuid are always symmetric.
C24_SameLocalFabricBothWays ==
    /\ \A uuid \in DOMAIN rx_queue \ OwnUuids :
          \A i, j \in DOMAIN rx_queue[uuid] :
             rx_queue[uuid][i].interface # rx_queue[uuid][j].interface =>
                TopologyHint(rx_queue[uuid][i].interface,
                             rx_queue[uuid][i].vid, "same_local_fabric_as",
                             rx_queue[uuid][j].interface,
                             rx_queue[uuid][j].vid, NoMac)
                    \in HintsOf(protocol_hints, uuid)
    /\ \A uuid \in DOMAIN protocol_hints \ OwnUuids :
          \A h \in SameLocalFabric(protocol_hints[uuid]) :
             Mirror(h) \in protocol_hints[uuid]

\* the untagged beacon of another sender came in on eth0 and then on vlan 100
\* of eth1
C24_Witness ==
    /\ UntaggedPayload.uuid \in DOMAIN rx_queue
    /\ Len(rx_queue[UntaggedPayload.uuid]) = 2
    /\ rx_queue[UntaggedPayload.uuid][1].interface = "eth0"
    /\ rx_queue[UntaggedPayload.uuid][2].interface = "eth1"
    /\ rx_queue[UntaggedPayload.uuid][2].vid = 100
    /\ Cardinality(SameLocalFabric(protocol_hints[UntaggedPayload.uuid])) = 2

\* the same, in the other order
C24_WitnessOtherOrder ==
    /\ UntaggedPayload.uuid \in DOMAIN rx_queue
    /\ Len(rx_queue[UntaggedPayload.uuid]) = 2
    /\ rx_queue[UntaggedPayload.uuid][1].interface = "eth1"
    /\ rx_queue[UntaggedPayload.uuid][2].interface = "eth0"
    /\ Cardinality(SameLocalFabric(protocol_hints[UntaggedPayload.uuid])) = 2

\* a beacon of another sender, who reports a vlan tag, comes in for the
\* first time
RemoteBeaconStep ==
    (/\ Processes
     /\ FirstReception
     /\ last_rx'.payload.uuid \notin DOMAIN tx_queue
     /\ last_rx'.payload.vid # NoVid) =>
        LET rx == last_rx'
            kind == IF rx.multicast THEN "on_remote_network"
                    ELSE "routable_to"
        IN  HintsOf(protocol_hints', rx.payload.uuid)
                = {TopologyHint(rx.interface, rx.vid, kind, rx.payload.ifname,
                                rx.payload.vid, rx.payload.mac)}

\* C25: a beacon that is not ours and whose sender reports a vlan tag yields
\* exactly one hint under its uuid, from the local interface and vid to the
\* interface, vid and mac of the sender: routable_to when it was sent to a
\* unicast address, on_remote_network when it was sent to a multicast one.
C25_RemoteBeaconHint == [][RemoteBeaconStep]_vars

\* the tagged beacon of another sender came in by unicast
C25_Witness ==
    /\ arrivals = 1
    /\ last_rx.payload = TaggedPayload
    /\ ~last_rx.multicast
    /\ Kinds(HintsOf(protocol_hints, TaggedPayload.uuid)) = {"routable_to"}

\* the tagged beacon of another sender came in by multicast on a vlan
C25_WitnessMulticast ==
    /\ arrivals = 1
    /\ last_rx.payload = TaggedPayload
    /\ last_rx.multicast
    /\ last_rx.vid = 200
    /\ Kinds(HintsOf(protocol_hints, TaggedPayload.uuid))
           = {"on_remote_network"}

\* what a step that processes a beacon sends
ReplyStep ==
    Processes =>
        LET rx == last_rx'
        IN  IF /\ rx.payload.type = "solicitation"
               /\ rx.payload.uuid \notin DOMAIN tx_queue
            THEN /\ Len(outbox') = Len(outbox) + 1
                 /\ SubSeq(outbox', 1, Len(outbox)) = outbox
                 /\ outbox'[Len(outbox')].destination = rx.source
                 /\ outbox'[Len(outbox')].beacon.type = "advertisement"
                 /\ outbox'[Len(outbox')].beacon.acks = rx.payload.uuid
            ELSE outbox' = outbox

\* C26: a solicitation whose uuid is not in the tx-table is answered with
\* exactly one advertisement, sent to its source, that acknowledges its uuid;
\* a beacon whose uuid is in the tx-table, and an advertisement, are not
\* answered.
C26_SolicitationAnsweredOnce == [][ReplyStep]_vars

\* the solicitation of another sender has been answered
C26_Witness ==
    /\ arrivals = 1
    /\ last_rx.payload = UntaggedPayload
    /\ verified(last_rx)
    /\ Len(outbox) = 1
    /\ outbox[1].beacon.type = "advertisement"
    /\ outbox[1].beacon.acks = UntaggedPayload.uuid
    /\ outbox[1].destination = "peer"

\* a solicitation of ours has come back and was not answered
C26_WitnessOwnEcho ==
    /\ arrivals = 1
    /\ OwnBeaconReceived
    /\ last_rx.payload.type = "solicitation"
    /\ Len(outbox) = 1
    /\ outbox[1].beacon = last_rx.payload

\* an advertisement of another sender was not answered
C26_WitnessAdvertisement ==
    /\ arrivals = 1
    /\ last_rx.payload = TaggedPayload
    /\ outbox = << >>

Old(uuid, time) == time - uuid_time(uuid) > RetentionWindow

\* a step that sends a beacon, or processes one
Accesses == Len(outbox') > Len(outbox) \/ Processes

\* how the tx-table and the rx-table change in a step
QueueStep ==
    /\ \A uuid \in DOMAIN tx_queue' \ DOMAIN tx_queue :
          /\ Len(outbox') = Len(outbox) + 1
          /\ outbox'[Len(outbox')].beacon.uuid = uuid
    /\ Len(outbox') > Len(outbox) =>
          outbox'[Len(outbox')].beacon.uuid \in DOMAIN tx_queue'
    /\ \A uuid \in DOMAIN tx_queue \ DOMAIN tx_queue' :
          \/ Old(uuid, wall)
          \/ Processes /\ last_rx'.payload.acks = uuid
    /\ Accesses =>
          \A uuid \in DOMAIN tx_queue' \cup DOMAIN rx_queue' :
             ~Old(uuid, wall')

\* no uuid is sent twice
SentOnce ==
    \A i, j \in DOMAIN outbox :
       outbox[i].beacon.uuid = outbox[j].beacon.uuid => i = j

\* C27: an entry of the tx-table is made when its beacon is sent and leaves
\* only when the beacon is acknowledged or has aged; after a step that sends
\* or processes a beacon neither table holds an entry older than the
\* retention window; no uuid is sent twice.
C27_EntriesAgedNeverResent == [][QueueStep]_vars /\ []SentOnce

\* a solicitation nobody acknowledged has aged out of the tx-table, and was
\* not sent again
C27_Witness ==
    /\ arrivals = 0
    /\ Len(outbox) = 2
    /\ outbox[1].beacon.uuid \notin DOMAIN tx_queue
    /\ outbox[2].beacon.uuid \in DOMAIN tx_queue
    /\ Old(outbox[1].beacon.uuid, wall)

\* a solicitation has left the tx-table because it was acknowledged
C27_WitnessAcked ==
    /\ Len(outbox) = 1
    /\ arrivals = 1
    /\ verified(last_rx)
    /\ last_rx.payload.acks = outbox[1].beacon.uuid
    /\ ~Old(outbox[1].beacon.uuid, wall)
    /\ tx_queue = << >>

Rejected(packet) == packet.check \in {"bad_signature", "malformed"}

\* a packet that fails verification arrives
DropStep ==
    (arrivals' = arrivals + 1 /\ Rejected(last_rx')) =>
        /\ tx_queue' = tx_queue
        /\ rx_queue' = rx_queue
        /\ protocol_hints' = protocol_hints
        /\ outbox' = outbox

\* C28: a packet with a bad signature or a malformed payload changes
\* nothing: the tx-table, the rx-table and the hints stay as they were and
\* nothing is sent.
C28_BadPacketDropped == [][DropStep]_vars

\* a packet with a bad signature arrived after a solicitation was sent, and
\* the solicitation is all there is
C28_Witness ==
    /\ arrivals = 1
    /\ last_rx.check = "bad_signature"
    /\ Len(outbox) = 1
    /\ DOMAIN tx_queue = {outbox[1].beacon.uuid}
    /\ rx_queue = << >>
    /\ protocol_hints = << >>

\* a malformed packet arrived after a beacon was processed
C28_WitnessMalformed ==
    /\ arrivals = 2
    /\ last_rx.check = "malformed"
    /\ protocol_hints # << >>

AllHints == UNION {protocol_hints[uuid] : uuid \in DOMAIN protocol_hints}

\* d has a key for each field of the hint that is set, and no other
IsDictionaryOf(d, hint) ==
    /\ DOMAIN d = set_fields(hint)
    /\ \A key \in DOMAIN d : d[key] = hint[key]

\* C29: what getJSONTopologyHints returns holds a dictionary for every hint
\* recorded under any uuid and nothing else, and each dictionary has a key
\* exactly for the fields of its hint that are set.
C29_HintsAsDictionaries ==
    json_hints # << >> =>
        /\ \A hint \in AllHints :
              \E i \in DOMAIN json_hints : IsDictionaryOf(json_hints[i], hint)
        /\ \A i \in DOMAIN json_hints :
              \E hint \in AllHints : IsDictionaryOf(json_hints[i], hint)

\* the hint of a tagged sender received by multicast on an untagged
\* interface was returned without a vid
C29_Witness ==
    \E i \in DOMAIN json_hints :
       /\ json_hints[i].hint = "on_remote_network"
       /\ DOMAIN json_hints[i]
             = {"ifname", "hint", "related_ifname", "related_vid",
                "related_mac"}

\* the hints of two uuids were returned together
C29_WitnessTwoUuids ==
    /\ Cardinality(DOMAIN protocol_hints) = 2
    /\ Len(json_hints) >= 2

-----------------------------------------------------------------------------
(* Properties of the monitoring service.                                   *)

\* at most one service holds the lock, and only a running one
LockHeldByOne ==
    \A service \in Monitors :
       locked[service] => lock_holder = service /\ running[service]

\* what one step does to the lock and to the interfaces recorded
MonitorStep ==
    \A service \in Monitors :
       /\ recorded'[service] # recorded[service] =>
             /\ lock_holder' = service
             /\ lock_holder \in {NoHolder, service}
       /\ (/\ iterations' = iterations + 1
           /\ last_iteration'.service = service
           /\ lock_holder \in {NoHolder, service}) =>
             /\ lock_holder' = service
             /\ locked'[service]
             /\ (recorded[service] = << >> /\ ~refresh_failed'[service]) =>
                   Len(recorded'[service]) = 1
       /\ (locked[service] /\ running'[service]) => locked'[service]
       /\ (locked[service] /\ ~running'[service]) => lock_holder' = NoHolder

\* C30: a monitor records interfaces only while it holds the lock of the
\* host; while somebody else holds it the monitor records nothing, and it
\* tries again at every iteration; the lock, once taken, is kept until the
\* service stops, which releases it; at most one monitor holds it.
C30_RecordsOnlyUnderLock == [][MonitorStep]_vars /\ []LockHeldByOne

\* a monitor iterated in vain while the lock was held elsewhere, and
\* recorded at the first iteration after it was free
C30_Witness ==
    \E service \in Monitors :
       /\ iterations >= 2
       /\ last_iteration = [service |-> service, held |-> FALSE,
                            holds |-> TRUE, refreshed |-> TRUE,
                            recorded |-> TRUE]
       /\ Len(recorded[service]) = 1
       /\ recorded[CHOOSE other \in Monitors : other # service] = << >>

\* a monitor iterated while the other one held the lock
C30_WitnessOtherMonitor ==
    \E service \in Monitors :
       /\ last_iteration = [service |-> service, held |-> FALSE,
                            holds |-> FALSE, refreshed |-> FALSE,
                            recorded |-> FALSE]
       /\ lock_holder \in Monitors \ {service}

\* a monitor that held the lock has stopped
C30_WitnessStopped ==
    \E service \in Monitors :
       /\ recorded[service] # << >>
       /\ ~running[service]
       /\ lock_holder = NoHolder

\* the configuration a service recorded last, if any
LastRecorded(service) ==
    IF recorded[service] = << >> THEN NoDefinition
    ELSE recorded[service][Len(recorded[service])]

\* an iteration of a service that holds the lock when it reads the
\* configuration
RefreshStep ==
    \A service \in Monitors :
       (/\ iterations' = iterations + 1
        /\ last_iteration'.service = service
        /\ last_iteration'.holds) =>
          /\ last_iteration'.refreshed <=>
                \/ interfaces_definition # LastRecorded(service)
                \/ refresh_failed[service]
          /\ recorded'[service] # recorded[service] =>
                /\ last_iteration'.refreshed
                /\ recorded'[service]
                      = Append(recorded[service], interfaces_definition)
          /\ refresh_failed'[service] =>
                last_iteration'.refreshed /\ recorded' = recorded
          /\ last_iteration'.refreshed =>
                refresh_failed'[service]
                   \/ recorded'[service] # recorded[service]

\* C31: an iteration of updateInterfaces runs the refresh exactly when the
\* configuration read differs from the one recorded last or the previous
\* refresh failed: not for an unchanged configuration after a success,
\* always for a changed one, and again after a failure.
C31_RefreshWhenChangedOrFailed == [][RefreshStep]_vars

\* the first refresh of a service failed and its second iteration, with the
\* lock already held, ran it again and recorded
C31_Witness ==
    \E service \in Monitors :
       /\ iterations = 2
       /\ last_iteration = [service |-> service, held |-> TRUE,
                            holds |-> TRUE, refreshed |-> TRUE,
                            recorded |-> TRUE]
       /\ recorded[service] = <<interfaces_definition>>

\* an iteration found the configuration it had recorded and did not refresh
C31_WitnessUnchanged ==
    \E service \in Monitors :
       /\ last_iteration = [service |-> service, held |-> TRUE,
                            holds |-> TRUE, refreshed |-> FALSE,
                            recorded |-> FALSE]
       /\ LastRecorded(service) = interfaces_definition
       /\ ~refresh_failed[service]

\* a changed configuration was recorded after the first one
C31_WitnessChanged ==
    \E service \in Monitors :
       /\ Len(recorded[service]) = 2
       /\ recorded[service][1] # recorded[service][2]
       /\ last_iteration.service = service
       /\ last_iteration.recorded

\* a step of a stopped protocol sends nothing and opens nothing
StoppedStep ==
    protocol_stopped =>
        /\ mcast_calls' = mcast_calls
        /\ last_burst' = last_burst
        /\ listen_port' = listen_port
        /\ protocol_stopped'

\* nothing is left of a stopped protocol: no call is pending and no port is
\* open
NothingPending ==
    protocol_stopped => mcast_timer = NoTimer /\ listen_port # "open"

C32_WitnessNoPort ==
    /\ protocol_stopped
    /\ listen_port = "none"
    /\ mcast_calls > 0

-----------------------------------------------------------------------------
(* Properties of the VLAN of a reconciled physical interface, network.py   *)
(* 164-176 and 191-209.                                                    *)

\* the VLAN the interface of the latest step had before the step
VlanBefore ==
    IF last \in DOMAIN pre.interfaces THEN pre.interfaces[last].vlan ELSE None

\* the latest step reconciled a physical interface and saved it
ReconciledPhysical ==
    /\ PhysicalStep
    /\ last \in DOMAIN db.interfaces

\* the VLANs of the subnets of the addresses the interface of the latest
\* step is linked to
LinkedVlans ==
    {db.subnets[db.addresses[a].subnet].vlan :
        a \in {x \in db.interfaces[last].ip_addresses :
                  db.addresses[x].subnet # None}}

C33_WitnessKept ==
    /\ ReconciledPhysical
    /\ create_fabrics
    /\ VlanBefore # None
    /\ FinalVlan = VlanBefore
    /\ LastConfig.links # << >>

-----------------------------------------------------------------------------
(* Properties of a pass with create_fabrics false, network.py 29-37,       *)
(* 116-122 and 169-197.                                                    *)

\* a pass with create_fabrics false is under way or has just returned
WithoutFabrics ==
    /\ pc \in {"update", "done"}
    /\ ~create_fabrics

\* the rows of the store that are not in the store the pass started from
NewInterfaces == DOMAIN db.interfaces \ DOMAIN before.interfaces
KeptInterfaces == DOMAIN db.interfaces \cap DOMAIN before.interfaces

\* C34: in a pass with create_fabrics false no Fabric, VLAN, Subnet or
\* address record is created or changed, no interface gains an address or
\* a VLAN, every new interface is physical, and the vlan, bond and bridge
\* interfaces are the ones of before the pass, unchanged but for the
\* parents that were deleted.
C34_OnlyPhysicalWithoutFabrics ==
    WithoutFabrics =>
        /\ db.fabrics = before.fabrics
        /\ db.vlans = before.vlans
        /\ db.subnets = before.subnets
        /\ \A a \in DOMAIN db.addresses :
               /\ a \in DOMAIN before.addresses
               /\ db.addresses[a] = before.addresses[a]
        /\ \A i \in NewInterfaces :
               /\ db.interfaces[i].type = "physical"
               /\ db.interfaces[i].vlan = None
               /\ db.interfaces[i].ip_addresses = {}
        /\ \A i \in KeptInterfaces :
               /\ db.interfaces[i].vlan = before.interfaces[i].vlan
               /\ db.interfaces[i].ip_addresses
                      \subseteq before.interfaces[i].ip_addresses
               /\ db.interfaces[i].type # "physical" =>
                      db.interfaces[i] =
                          [before.interfaces[i] EXCEPT
                              !.parents = @ \cap DOMAIN db.interfaces]

\* a pass with create_fabrics false whose desired state declares a child
\* interface with links has created a physical interface and is done
C34_Witness ==
    /\ WithoutFabrics
    /\ pc = "done"
    /\ NewInterfaces # {}
    /\ \E name \in DOMAIN interfaces :
           /\ interfaces[name].type # "physical"
           /\ interfaces[name].links # << >>

\* a pass with create_fabrics false has updated a physical interface that
\* has links in its desired state
C34_WitnessUpdated ==
    /\ WithoutFabrics
    /\ PhysicalStep
    /\ LastConfig.links # << >>
    /\ last \in KeptInterfaces
    /\ db.interfaces[last] # before.interfaces[last]

-----------------------------------------------------------------------------
(* Properties of guess_vlan_from_hints, network.py 212-253 and 433-457.    *)

\* the hints about the interface of the latest step whose beacons carried
\* no VLAN tag
RelevantHints ==
    SelectSeq(topology_hints, LAMBDA hint :
        /\ hint.ifname = LastName
        /\ hint.vid = NoVid
        /\ hint.related_vid = NoVid)

\* the interfaces a hint names: of the node and named related_ifname for a
\* hint about the node's own interfaces, with the mac related_mac for a hint
\* about a remote network
NamedByHint(hint) ==
    {i \in DOMAIN AtGuess.interfaces :
        \/ /\ hint.hint \in {"rx_own_beacon_on_other_interface",
                             "same_local_fabric_as"}
           /\ AtGuess.interfaces[i].node = node
           /\ AtGuess.interfaces[i].name = hint.related_ifname
        \/ /\ hint.hint \in {"on_remote_network", "routable_to"}
           /\ hint.related_mac # NoMac
           /\ AtGuess.interfaces[i].mac_address = hint.related_mac}

\* the VLANs of the interfaces a hint names
VlansNamedByHint(hint) ==
    {AtGuess.interfaces[i].vlan : i \in NamedByHint(hint)} \ {None}

\* the first relevant hint that names an interface with a VLAN
FirstVlanHint ==
    first({k \in DOMAIN RelevantHints :
             VlansNamedByHint(RelevantHints[k]) # {}})

\* C35: when a VLAN is guessed for an interface, guess_vlan_from_hints
\* returns nothing if no relevant hint names an interface with a VLAN, and
\* otherwise the VLAN of an interface named by the first such hint.
C35_HintVlanOfNamedInterface ==
    GuessedVlan =>
        IF FirstVlanHint = None THEN HintVlan = None
        ELSE HintVlan \in VlansNamedByHint(RelevantHints[FirstVlanHint])

-----------------------------------------------------------------------------
(* Properties of child interfaces whose parents are not on the node,       *)
(* network.py 314-335 and 66-83.                                           *)

\* the rows of a node with a name, in a store
RowsNamed(store, n, name) ==
    {i \in DOMAIN store.interfaces :
        /\ store.interfaces[i].node = n
        /\ store.interfaces[i].name = name}

\* the latest step was about a child interface of a type whose declared
\* parents were the names of no interface of the node
OrphanStep(type) ==
    /\ pc = "update"
    /\ processed # << >>
    /\ create_fabrics
    /\ LastConfig.type = type
    /\ \A p \in Range(LastConfig.parents) : RowsNamed(pre, node, p) = {}

\* the bonds of the desired state that the pass has processed and for which
\* the node has no bond row that a step of the pass returned
BondsNotModelled ==
    {name \in Range(processed) :
        /\ interfaces[name].type = "bond"
        /\ \A i \in RowsNamed(db, node, name) \ current_interfaces :
               db.interfaces[i].type # "bond"}

\* C36: the step about a bond whose declared parents are no interfaces of
\* the node returns nothing and leaves the store as it was, with the rows of
\* that name among the interfaces still to be deleted; once the deletion
\* pass is over the node has no row with the name of a bond that was not
\* modelled; the step about a bridge without parents returns a bridge row of
\* the node with the declared name and mac and no parents.
C36_OrphanBondNotModelled ==
    /\ OrphanStep("bond") =>
           /\ last = None
           /\ db = pre
           /\ LastName \in BondsNotModelled
           /\ RowsNamed(db, node, LastName) \subseteq current_interfaces
    /\ (pc = "done" /\ create_fabrics) =>
           \A name \in BondsNotModelled : RowsNamed(db, node, name) = {}
    /\ OrphanStep("bridge") =>
           /\ last \in RowsNamed(db, node, LastName)
           /\ db.interfaces[last].type = "bridge"
           /\ db.interfaces[last].mac_address = LastConfig.mac_address
           /\ db.interfaces[last].parents = {}

\* a bond with declared parents that are not on the node was passed over
\* while the node had a row of its name
C36_Witness ==
    /\ OrphanStep("bond")
    /\ LastConfig.parents # << >>
    /\ RowsNamed(db, node, LastName) # {}

\* the deletion pass removed the stored row of a bond that was not modelled
C36_WitnessDeleted ==
    /\ pc = "done"
    /\ create_fabrics
    /\ \E name \in BondsNotModelled : RowsNamed(pre, node, name) # {}

\* a bridge without parents was created with links
C36_WitnessBridge ==
    /\ OrphanStep("bridge")
    /\ last \notin DOMAIN pre.interfaces
    /\ db.interfaces[last].ip_addresses # {}

-----------------------------------------------------------------------------
(* Properties of the Fabric that update_physical_links deletes, network.py *)
(* 200-209, 169-176 and 389-408.                                           *)

\* the Fabrics whose deletion the latest step wrote to the store
FabricsDeleted ==
    {entry[3] : entry \in {e \in db.log \ pre.log :
                              e[1] = "delete" /\ e[2] = "fabric"}}

\* the pass failed in the step about a physical interface: the Fabric of the
\* VLAN chosen for it was to be deleted and the deletion was refused
DeletionRefused ==
    /\ pc = "failed"
    /\ process_order # << >>
    /\ interfaces[Head(process_order)].type = "physical"

C37_WitnessLinks ==
    /\ DeletionRefused
    /\ topology_hints = NoHints
    /\ get_interface_vlan_from_links(pre,
           interfaces[Head(process_order)].links) # None

-----------------------------------------------------------------------------
(* Properties of the parent of a VLAN interface, network.py 263-286,       *)
(* 164-176 and 513-519.                                                    *)

\* the next step of a pass with create_fabrics true is about a VLAN
\* interface whose parent is in the desired state
VlanChildNext ==
    /\ pc = "update"
    /\ create_fabrics
    /\ process_order # << >>
    /\ interfaces[Head(process_order)].type = "vlan"
    /\ interfaces[Head(process_order)].parents # << >>
    /\ interfaces[Head(process_order)].parents[1] \in DOMAIN interfaces

\* the rows of the node with the name of the parent of the next interface
ParentRows ==
    RowsNamed(db, node, interfaces[Head(process_order)].parents[1])

\* C38 as stated: when a VLAN interface whose parent is in the desired state
\* is about to be reconciled in a pass with create_fabrics true, the node
\* has one interface with the name of the parent, and it has a VLAN.
C38_ParentHasVlan ==
    VlanChildNext =>
        /\ Cardinality(ParentRows) = 1
        /\ \A p \in ParentRows : db.interfaces[p].vlan # None

\* the same for parents that are enabled physical interfaces
C38_EnabledParentHasVlan ==
    (/\ VlanChildNext
     /\ interfaces[interfaces[Head(process_order)].parents[1]].type
            = "physical"
     /\ interfaces[interfaces[Head(process_order)].parents[1]].enabled) =>
        /\ Cardinality(ParentRows) = 1
        /\ \A p \in ParentRows : db.interfaces[p].vlan # None

-----------------------------------------------------------------------------
(* Properties of the default VLAN under passes that run side by side,      *)
(* network.py 389-408 and 169-197.  The desired states of these passes     *)
(* have neither links nor hints: an interface gets the default VLAN of the *)
(* default Fabric or of a new Fabric.                                      *)

\* the macs of the physical interfaces on the default VLAN of the default
\* Fabric
OnDefaultVlan ==
    {db.interfaces[i].mac_address :
        i \in {j \in DOMAIN db.interfaces :
                  /\ db.interfaces[j].type = "physical"
                  /\ db.interfaces[j].vlan = get_default_vlan(db)}}

\* C39 as stated: whatever the interleaving of the passes, the physical
\* interfaces of at most one mac are on the default VLAN of the default
\* Fabric.
C39_OneInterfaceOnDefaultVlan == Cardinality(OnDefaultVlan) <= 1

-----------------------------------------------------------------------------
(* Properties of the addresses update_links returns, network.py 520-574,   *)
(* 643-652 and 370-386.                                                    *)

\* the links of the latest step are dhcp links
OnlyDhcpLinks ==
    /\ LastConfig.links # << >>
    /\ \A k \in DOMAIN LastConfig.links : LastConfig.links[k].mode = "dhcp"

\* the VLANs of the subnets of the addresses learned on the dhcp links of
\* the latest step
LearnedVlans ==
    {db.subnets[c].vlan :
        c \in {cidr_of(LastConfig.links[k].address) :
                  k \in {j \in DOMAIN LastConfig.links :
                            LastConfig.links[j].address # NoAddress}}
              \cap DOMAIN db.subnets}

\* C40 as stated: after the step about a physical interface whose links are
\* dhcp links, at least one with a learned address, in a pass with
\* create_fabrics true, the interface is on the VLAN of the subnet of a
\* learned address.
C40_VlanInferredFromDhcpLink ==
    (ReconciledPhysical /\ create_fabrics /\ OnlyDhcpLinks
         /\ LearnedVlans # {}) =>
        FinalVlan \in LearnedVlans

-----------------------------------------------------------------------------
(* Properties of the processing order.                                     *)

\* the desired parents of a desired interface
DesiredParents(name) == Range(interfaces[name].parents) \cap DOMAIN interfaces

\* the dependency level of a desired interface: 0 without parents, else one
\* more than the highest level of its parents
RECURSIVE Level(_)
Level(name) ==
    IF DesiredParents(name) = {} THEN 0
    ELSE 1 + CHOOSE l \in {Level(parent) : parent \in DesiredParents(name)} :
                 \A parent \in DesiredParents(name) : Level(parent) <= l

Position(name) == CHOOSE i \in DOMAIN process_order : process_order[i] = name

\* C1: the processing order holds every desired interface once, each after
\* all of its parents, and the interfaces of one dependency level in
\* ascending order of their names.
C1_ProcessingOrder ==
    pc = "ordered" =>
        /\ Range(process_order) = DOMAIN interfaces
        /\ Len(process_order) = Cardinality(DOMAIN interfaces)
        /\ \A name \in DOMAIN interfaces :
              \A parent \in DesiredParents(name) :
                  Position(parent) < Position(name)
        /\ \A i, j \in DOMAIN process_order :
              (i < j /\ Level(process_order[i]) = Level(process_order[j]))
                  => NameRank[process_order[i]] < NameRank[process_order[j]]

\* an order of four interfaces over three levels, two of them on one level
C1_Witness ==
    /\ pc = "ordered"
    /\ Len(process_order) = 4
    /\ \E name \in DOMAIN interfaces : Level(name) = 2
    /\ \E a, b \in DOMAIN interfaces : a # b /\ Level(a) = Level(b)

-----------------------------------------------------------------------------
(* Properties of passes side by side.                                      *)

\* each pass waits for a row the other pass has locked
Deadlocked ==
    \A p \in Nodes :
        /\ txn[p].pc = "blocked"
        /\ txn[p].waiting \cap txn[Other(p)].locks # {}

\* C3: two passes that run side by side for different nodes never wait for
\* each other, also when both match the same interface row by its mac under
\* different names.
C3_NoDeadlock == ~Deadlocked

=============================================================================
